---------------------------- MODULE Spec2Model ----------------------------
(***************************************************************************)
(* A model of the VCF scanner (include/vcf_scanner/vcf_scanner.hh) and of  *)
(* its tokenizer (include/vcf_scanner/impl/vcf_tokenizer.hh).              *)
(*                                                                         *)
(* A byte is a one-character string; a buffer, a token and a std::string   *)
(* are sequences of bytes.  The tokenizer's (current_ptr, remaining_size)  *)
(* view is the sequence `buf' of the bytes not read yet.  Every C++        *)
(* function is an operator from the object's fields (a record) to the      *)
(* fields after the call and the value returned.                           *)
(***************************************************************************)
EXTENDS Integers, Sequences, FiniteSets, TLC

VARIABLES
    input,      \* the byte stream the caller reads (Test_reader::vcf_data)
    chunk_size, \* the caller's buffer size (Test_reader::chunk_size)
    fed,        \* number of bytes of input fed so far (Test_reader::current_ptr)
    sc,         \* the VCF_scanner object
    ev,         \* the Parsing_event returned by the last call
    op,         \* the operation the caller invoked last
    calls,      \* number of operations the caller has invoked
    before,     \* sc, ev, op and fed when that operation was invoked
    peer,       \* a second, independent run (the two-run specifications)
    tz          \* a bare VCF_tokenizer and its driver (the tokenizer specification)

vars == <<input, chunk_size, fed, sc, ev, op, calls, before, peer, tz>>

---------------------------------------------------------------------------
(* Bounds of the model.                                                    *)

\* Largest fixed buffer size the caller uses besides "the whole input".
MaxChunk == 2

\* Width in bits of the C++ `unsigned' type of the model.
UIntBits == 5

\* Longest byte stream given to the bare tokenizer.
MaxTokStream == 4

\* Number of operations the caller invokes after the header in one run.
MaxCalls == 4

---------------------------------------------------------------------------
(* Bytes and character classes                                             *)

EOF == "EOF"

Digits == <<"0", "1", "2", "3", "4", "5", "6", "7", "8", "9">>

\* (unsigned) c - '0' for a digit; any other byte gives a value above 9.
DigitOf(c) ==
    IF \E i \in 1..10 : Digits[i] = c
    THEN (CHOOSE i \in 1..10 : Digits[i] = c) - 1
    ELSE 10

UINT_MAX == 2^UIntBits - 1

newline_only == {"\n"}
newline_or_tab == {"\n", "\t"}
newline_or_tab_or_equals == {"\n", "\t", "="}
newline_or_tab_or_semicolon == {"\n", "\t", ";"}
newline_or_tab_or_comma == {"\n", "\t", ","}
newline_or_tab_or_colon == {"\n", "\t", ":"}

---------------------------------------------------------------------------
(* VCF_tokenizer                                                           *)

\* The tokenizer after construction.  terminator, the view and eof_reached
\* have no initializer; they are written by set_new_buffer and by the first
\* token before anything reads them.
TokenizerInit ==
    [ buf          |-> <<>>,
      eof_reached  |-> FALSE,
      accumulating |-> FALSE,
      accumulator  |-> <<>>,
      token        |-> <<>>,
      terminator   |-> "\n",
      line_number  |-> 1 ]

set_new_buffer(t, buffer) ==
    [t EXCEPT !.buf = buffer, !.eof_reached = (Len(buffer) = 0)]

buffer_is_empty(t) == Len(t.buf) = 0

tokenizer_at_eof(t) == t.eof_reached

\* Index in the view of the first byte of character_set, 0 for nullptr.
find_char_from_set(t, character_set) ==
    IF \E i \in 1..Len(t.buf) : t.buf[i] \in character_set
    THEN CHOOSE i \in 1..Len(t.buf) :
            /\ t.buf[i] \in character_set
            /\ \A j \in 1..(i - 1) : t.buf[j] \notin character_set
    ELSE 0

find_newline(t) == find_char_from_set(t, newline_only)

find_newline_or_tab(t) == find_char_from_set(t, newline_or_tab)

set_terminator(t, term) == [t EXCEPT !.terminator = term]

\* set_terminator_and_inc_line_num_if_newline without the line counting.
set_terminator_without_line_count(t, term) ==
    [t EXCEPT !.terminator = term]

set_terminator_and_inc_line_num_if_newline(t, term) ==
    [t EXCEPT !.terminator = term,
              !.line_number = IF term = "\n" THEN @ + 1 ELSE @]

advance_by(t, number_of_bytes) ==
    [t EXCEPT !.buf = SubSeq(@, number_of_bytes + 1, Len(@))]

\* Length of the token without the CR of a CR LF pair.
LenWithoutCR(t, end_of_token, token_len) ==
    IF t.buf[end_of_token] = "\n" /\ t.buf[end_of_token - 1] = "\r"
    THEN token_len - 1
    ELSE token_len

\* The accumulator taken as it is, CR included.
AccumulatorWithCR(t, end_of_token) == t.accumulator

\* The accumulator when the delimiter is the first byte of the view.
AccumulatorAtSeam(t, end_of_token) ==
    IF /\ t.buf[end_of_token] = "\n"
       /\ Len(t.accumulator) > 0
       /\ t.accumulator[Len(t.accumulator)] = "\r"
    THEN SubSeq(t.accumulator, 1, Len(t.accumulator) - 1)
    ELSE t.accumulator

\* prepare_token_or_accumulate that copies all but the last byte of the view
\* when it starts or continues an accumulation.
prepare_token_dropping_at_seam(t, end_of_token) ==
    IF end_of_token = 0
    THEN IF ~t.eof_reached
         THEN [ t   |-> [t EXCEPT !.accumulating = TRUE,
                                  !.accumulator =
                                      (IF t.accumulating THEN @ ELSE <<>>)
                                      \o SubSeq(t.buf, 1, Len(t.buf) - 1)],
                ret |-> FALSE ]
         ELSE [ t   |-> [set_terminator(t, EOF) EXCEPT
                                  !.accumulating = FALSE,
                                  !.token = IF t.accumulating
                                            THEN t.accumulator ELSE <<>>],
                ret |-> TRUE ]
    ELSE LET t1 == set_terminator_and_inc_line_num_if_newline(
                       t, t.buf[end_of_token])
             token_len == end_of_token - 1
             acc == IF token_len > 0
                    THEN t.accumulator \o
                         SubSeq(t.buf, 1,
                                LenWithoutCR(t, end_of_token, token_len))
                    ELSE AccumulatorAtSeam(t, end_of_token)
             t2 == IF ~t.accumulating
                   THEN [t1 EXCEPT !.token =
                            IF token_len > 0
                            THEN SubSeq(t.buf, 1,
                                   LenWithoutCR(t, end_of_token, token_len))
                            ELSE <<>>]
                   ELSE [t1 EXCEPT !.accumulating = FALSE,
                                   !.accumulator = acc,
                                   !.token = acc]
         IN  [ t |-> advance_by(t2, token_len + 1), ret |-> TRUE ]

\* prepare_token_or_accumulate that appends to the accumulator also when it
\* starts an accumulation.
prepare_token_always_appending(t, end_of_token) ==
    IF end_of_token = 0
    THEN IF ~t.eof_reached
         THEN [ t   |-> [t EXCEPT !.accumulating = TRUE,
                                  !.accumulator = @ \o t.buf],
                ret |-> FALSE ]
         ELSE [ t   |-> [set_terminator(t, EOF) EXCEPT
                                  !.accumulating = FALSE,
                                  !.token = IF t.accumulating
                                            THEN t.accumulator ELSE <<>>],
                ret |-> TRUE ]
    ELSE LET t1 == set_terminator_and_inc_line_num_if_newline(
                       t, t.buf[end_of_token])
             token_len == end_of_token - 1
             acc == IF token_len > 0
                    THEN t.accumulator \o
                         SubSeq(t.buf, 1,
                                LenWithoutCR(t, end_of_token, token_len))
                    ELSE AccumulatorAtSeam(t, end_of_token)
             t2 == IF ~t.accumulating
                   THEN [t1 EXCEPT !.token =
                            IF token_len > 0
                            THEN SubSeq(t.buf, 1,
                                   LenWithoutCR(t, end_of_token, token_len))
                            ELSE <<>>]
                   ELSE [t1 EXCEPT !.accumulating = FALSE,
                                   !.accumulator = acc,
                                   !.token = acc]
         IN  [ t |-> advance_by(t2, token_len + 1), ret |-> TRUE ]

\* prepare_token_or_accumulate that clears the last token when it starts
\* or continues an accumulation.
prepare_token_cleared_at_seam(t, end_of_token) ==
    IF end_of_token = 0
    THEN IF ~t.eof_reached
         THEN [ t   |-> [t EXCEPT !.accumulating = TRUE,
                                  !.token = <<>>,
                                  !.accumulator =
                                      IF t.accumulating THEN @ \o t.buf
                                      ELSE t.buf],
                ret |-> FALSE ]
         ELSE [ t   |-> [set_terminator(t, EOF) EXCEPT
                                  !.accumulating = FALSE,
                                  !.token = IF t.accumulating
                                            THEN t.accumulator ELSE <<>>],
                ret |-> TRUE ]
    ELSE LET t1 == set_terminator_and_inc_line_num_if_newline(
                       t, t.buf[end_of_token])
             token_len == end_of_token - 1
             acc == IF token_len > 0
                    THEN t.accumulator \o
                         SubSeq(t.buf, 1,
                                LenWithoutCR(t, end_of_token, token_len))
                    ELSE AccumulatorAtSeam(t, end_of_token)
             t2 == IF ~t.accumulating
                   THEN [t1 EXCEPT !.token =
                            IF token_len > 0
                            THEN SubSeq(t.buf, 1,
                                   LenWithoutCR(t, end_of_token, token_len))
                            ELSE <<>>]
                   ELSE [t1 EXCEPT !.accumulating = FALSE,
                                   !.accumulator = acc,
                                   !.token = acc]
         IN  [ t |-> advance_by(t2, token_len + 1), ret |-> TRUE ]

prepare_token_or_accumulate(t, end_of_token) ==
    IF end_of_token = 0
    THEN IF ~t.eof_reached
         THEN [ t   |-> [t EXCEPT !.accumulating = TRUE,
                                  !.accumulator =
                                      IF t.accumulating THEN @ \o t.buf
                                      ELSE t.buf],
                ret |-> FALSE ]
         ELSE [ t   |-> [set_terminator(t, EOF) EXCEPT
                                  !.accumulating = FALSE,
                                  !.token = IF t.accumulating
                                            THEN t.accumulator ELSE <<>>],
                ret |-> TRUE ]
    ELSE LET t1 == set_terminator_and_inc_line_num_if_newline(
                       t, t.buf[end_of_token])
             token_len == end_of_token - 1
             acc == IF token_len > 0
                    THEN t.accumulator \o
                         SubSeq(t.buf, 1,
                                LenWithoutCR(t, end_of_token, token_len))
                    ELSE AccumulatorAtSeam(t, end_of_token)
             t2 == IF ~t.accumulating
                   THEN [t1 EXCEPT !.token =
                            IF token_len > 0
                            THEN SubSeq(t.buf, 1,
                                   LenWithoutCR(t, end_of_token, token_len))
                            ELSE <<>>]
                   ELSE [t1 EXCEPT !.accumulating = FALSE,
                                   !.accumulator = acc,
                                   !.token = acc]
         IN  [ t |-> advance_by(t2, token_len + 1), ret |-> TRUE ]

\* skip_token that asks for more data whenever no terminator is in the
\* buffer, at the end of the input too.
skip_token_waiting_at_eof(t, end_of_token) ==
    LET t0 == [t EXCEPT !.accumulating = FALSE]
    IN  IF end_of_token = 0
        THEN [ t |-> t0, ret |-> FALSE ]
        ELSE [ t   |-> advance_by(
                          set_terminator_and_inc_line_num_if_newline(
                              t0, t.buf[end_of_token]),
                          end_of_token),
               ret |-> TRUE ]

skip_token(t, end_of_token) ==
    LET t0 == [t EXCEPT !.accumulating = FALSE]
    IN  IF end_of_token = 0
        THEN IF ~t.eof_reached
             THEN [ t |-> t0, ret |-> FALSE ]
             ELSE [ t |-> set_terminator(t0, EOF), ret |-> TRUE ]
        ELSE [ t   |-> advance_by(
                          set_terminator_and_inc_line_num_if_newline(
                              t0, t.buf[end_of_token]),
                          end_of_token),
               ret |-> TRUE ]

end_of_number == "end_of_number"
integer_overflow == "integer_overflow"
end_of_buffer == "end_of_buffer"

\* The overflow test of parse_uint that compares with UINT_MAX / 10 only.
WouldOverflowByTensOnly(number, digit) ==
    number > UINT_MAX \div 10

\* The overflow test of parse_uint: number * 10 + digit would exceed
\* UINT_MAX.
WouldOverflow(number, digit) ==
    \/ number > UINT_MAX \div 10
    \/ (number = UINT_MAX \div 10 /\ digit > UINT_MAX % 10)

\* The do-while loop of parse_uint over a non-empty view.
RECURSIVE ParseUintLoop(_, _, _)
ParseUintLoop(t, number, number_len) ==
    LET digit == DigitOf(t.buf[1])
    IN  IF digit > 9
        THEN [ t |-> advance_by(
                        set_terminator_and_inc_line_num_if_newline(
                            t, t.buf[1]), 1),
               number |-> number, number_len |-> number_len,
               res |-> end_of_number ]
        ELSE IF WouldOverflow(number, digit)
        THEN [ t |-> t, number |-> number, number_len |-> number_len,
               res |-> integer_overflow ]
        ELSE LET t1 == advance_by(t, 1)
                 n1 == number * 10 + digit
             IN  IF Len(t1.buf) > 0
                 THEN ParseUintLoop(t1, n1, number_len + 1)
                 ELSE [ t |-> t1, number |-> n1,
                        number_len |-> number_len + 1,
                        res |-> end_of_buffer ]

parse_uint(t, number, number_len) ==
    IF Len(t.buf) = 0
    THEN IF t.eof_reached
         THEN [ t |-> set_terminator(t, EOF), number |-> number,
                number_len |-> number_len, res |-> end_of_number ]
         ELSE [ t |-> t, number |-> number, number_len |-> number_len,
                res |-> end_of_buffer ]
    ELSE ParseUintLoop(t, number, number_len)

token_is_dot(t) ==
    Len(t.token) = 0 \/ (Len(t.token) = 1 /\ t.token[1] = ".")

at_eol(t) == t.terminator = "\n" \/ t.terminator = EOF

\* Position of delim in the token, 0 for npos.
FindInToken(token, delim) ==
    IF \E i \in 1..Len(token) : token[i] = delim
    THEN CHOOSE i \in 1..Len(token) :
            /\ token[i] = delim
            /\ \A j \in 1..(i - 1) : token[j] # delim
    ELSE 0

get_key_value(t, delim) ==
    LET delim_pos == FindInToken(t.token, delim)
    IN  IF delim_pos = 0
        THEN [ ret |-> FALSE, key |-> <<>>, value |-> <<>> ]
        ELSE [ ret   |-> TRUE,
               key   |-> SubSeq(t.token, 1, delim_pos - 1),
               value |-> SubSeq(t.token, delim_pos + 1, Len(t.token)) ]

---------------------------------------------------------------------------
(* VCF_scanner: events, states, fields                                     *)

need_more_data == "need_more_data"
ok == "ok"
ok_with_warnings == "ok_with_warnings"
error == "error"
\* Not a Parsing_event: the call did not return (an uncaught exception or a
\* memory fault).
terminated == "terminated"

parsing_fileformat == 0
parsing_metainfo_key == 1
parsing_metainfo_value == 2
parsing_header_line_columns == 3
parsing_sample_ids == 4
parsing_chrom == 5
parsing_pos == 6
parsing_id == 7
parsing_ref == 8
parsing_alt == 9
parsing_quality == 10
parsing_filter == 11
parsing_info_field == 12
parsing_genotype_format == 13
parsing_genotypes == 14
end_of_data_line == 15
skipping_to_next_line == 16
peeking_beyond_newline == 17

number_of_mandatory_columns == 8

\* The value of a member that has no initializer and was never written.
Indeterminate == "indeterminate"

Columns ==
    << <<"C", "H", "R", "O", "M">>, <<"P", "O", "S">>, <<"I", "D">>,
       <<"R", "E", "F">>, <<"A", "L", "T">>, <<"Q", "U", "A", "L">>,
       <<"F", "I", "L", "T", "E", "R">>, <<"I", "N", "F", "O">>,
       <<"F", "O", "R", "M", "A", "T">>,
       <<"G", "E", "N", "O", "T", "Y", "P", "E">> >>

\* columns[field_index]; an index outside the array reads no column name.
get_header_line_column(field_index) ==
    IF field_index \in 0..(number_of_mandatory_columns + 1)
    THEN Columns[field_index + 1]
    ELSE <<Indeterminate>>

HeaderInit ==
    [ file_format_version   |-> <<>>,
      meta_info             |-> <<>>,
      genotype_info_present |-> FALSE,
      sample_ids            |-> <<>> ]

\* add_meta_info that keeps only the last value of a key.
add_meta_info_replacing(header, meta_info_key, meta_info_line) ==
    [header EXCEPT !.meta_info =
        [k \in (DOMAIN @) \cup {meta_info_key} |->
            IF k = meta_info_key THEN <<meta_info_line>> ELSE @[k]]]

\* meta_info[meta_info_key].push_back(meta_info_line); the map is a function
\* from its keys to their lists of values.
add_meta_info(header, meta_info_key, meta_info_line) ==
    [header EXCEPT !.meta_info =
        IF meta_info_key \in DOMAIN @
        THEN [@ EXCEPT ![meta_info_key] = Append(@, meta_info_line)]
        ELSE [k \in (DOMAIN @) \cup {meta_info_key} |->
                 IF k = meta_info_key THEN <<meta_info_line>> ELSE @[k]]]

vcf_integer == "vcf_integer"
vcf_gt == "vcf_gt"

\* A Genotype_value after memset(0): a null pointer, data type 0.
ZeroGenotypeValue == [ flag |-> FALSE, data_type |-> vcf_integer ]

\* The scanner after construction.  genotype_key_positions (gt_position,
\* number_of_positions) and phased_gt have no initializer: until the first
\* write (key_positions_written, phased_gt_written) their value is
\* indeterminate.
ScannerInit ==
    [ state                        |-> parsing_fileformat,
      fields_to_skip               |-> 0,
      current_meta_info_key        |-> <<>>,
      header_line_column_ok        |-> 0,
      warnings                     |-> <<>>,
      error_message                |-> <<>>,
      tokenizer                    |-> TokenizerInit,
      header                       |-> HeaderInit,
      next_list_index              |-> 0,
      number_len                   |-> 0,
      chrom                        |-> <<>>,
      pos                          |-> 0,
      ids                          |-> <<>>,
      ref                          |-> <<>>,
      alts                         |-> <<>>,
      alleles_parsed               |-> FALSE,
      quality                      |-> <<>>,
      filters                      |-> <<>>,
      info                         |-> <<>>,
      format_keys                  |-> {},
      key_positions_written        |-> FALSE,
      number_of_positions          |-> 0,
      gt_position                  |-> 0,
      other_keys                   |-> <<>>,
      current_genotype_field_index |-> 0,
      current_genotype_value_index |-> 0,
      genotype_values              |-> <<>>,
      gt                           |-> <<>>,
      phased_gt_written            |-> FALSE,
      phased_gt                    |-> FALSE ]

\* A call's outcome: the object after the call and the event returned.
R(s, e) == [ s |-> s, ev |-> e ]

header_error(s, err_msg) == R([s EXCEPT !.error_message = <<err_msg>>], error)

invalid_meta_info_line_error(s) ==
    header_error(s, "Malformed meta-information line")

invalid_header_line_error(s) == header_error(s, "Malformed VCF header line")

data_line_error(s, err_msg) == R([s EXCEPT !.error_message = err_msg], error)

MissingFieldMessage(field_index) ==
    <<"Missing mandatory VCF field \"">> \o
    get_header_line_column(field_index) \o <<"\"">>

\* The error reported without leaving the data line.
missing_field_error_keeping_state(s, field_index) ==
    data_line_error(s, MissingFieldMessage(field_index))

missing_mandatory_field_error(s, field_index) ==
    data_line_error([s EXCEPT !.state = end_of_data_line],
                    MissingFieldMessage(field_index))

\* reset_state_for_next_data_line that leaves alleles_parsed as it is.
reset_state_keeping_alleles(s) ==
    [s EXCEPT !.state = parsing_chrom]

reset_state_for_next_data_line(s) ==
    [s EXCEPT !.state = parsing_chrom, !.alleles_parsed = FALSE]

reset_genotype_values(s) ==
    [s EXCEPT !.genotype_values =
                  [i \in 1..Len(@) |-> ZeroGenotypeValue],
              !.current_genotype_field_index = 0,
              !.number_len = 0]

\* The vector after alloc_genotype_value(index); the slot is index + 1.
alloc_genotype_value(s, index) ==
    IF Len(s.genotype_values) <= index
    THEN [s EXCEPT !.genotype_values =
            [i \in 1..(index + 1) |->
                IF i <= Len(s.genotype_values)
                THEN s.genotype_values[i] ELSE ZeroGenotypeValue]]
    ELSE s

\* parse_string that stores the token and leaves the state where it was.
parse_string_keeping_state(s, target_state) ==
    LET p  == prepare_token_or_accumulate(
                  s.tokenizer, find_newline_or_tab(s.tokenizer))
        s1 == [s EXCEPT !.tokenizer = p.t]
    IN  IF ~p.ret THEN R(s1, need_more_data)
        ELSE IF at_eol(p.t)
        THEN missing_mandatory_field_error(s1, target_state - parsing_chrom)
        ELSE R(s1, ok)

parse_string(s, target_state) ==
    LET p  == prepare_token_or_accumulate(
                  s.tokenizer, find_newline_or_tab(s.tokenizer))
        s1 == [s EXCEPT !.tokenizer = p.t]
    IN  IF ~p.ret THEN R(s1, need_more_data)
        ELSE IF at_eol(p.t)
        THEN missing_mandatory_field_error(s1, target_state - parsing_chrom)
        ELSE R([s1 EXCEPT !.state = target_state], ok)

\* container.at(next_list_index) = token, or push_back past the end.
StoreInList(container, next_list_index, token) ==
    IF next_list_index < Len(container)
    THEN [container EXCEPT ![next_list_index + 1] = token]
    ELSE Append(container, token)

\* container.resize(count) that never shrinks the vector.
ResizeListKeepingTail(container, count) ==
    [i \in 1..(IF count < Len(container) THEN Len(container) ELSE count) |->
        IF i <= Len(container) THEN container[i] ELSE <<>>]

\* container.resize(count) of a vector of strings.
ResizeList(container, count) ==
    [i \in 1..count |-> IF i <= Len(container) THEN container[i] ELSE <<>>]

RECURSIVE parse_string_list(_, _, _, _)
parse_string_list(s, target_state, container, character_set) ==
    LET p  == prepare_token_or_accumulate(
                  s.tokenizer,
                  find_char_from_set(s.tokenizer, character_set))
        s1 == [s EXCEPT !.tokenizer = p.t]
        s2 == IF ~token_is_dot(p.t)
              THEN [s1 EXCEPT
                      ![container] = StoreInList(@, s.next_list_index,
                                                 p.t.token),
                      !.next_list_index = @ + 1]
              ELSE s1
    IN  IF ~p.ret THEN R(s1, need_more_data)
        ELSE IF at_eol(p.t)
        THEN missing_mandatory_field_error(s1, target_state - parsing_chrom)
        ELSE IF p.t.terminator # "\t"
        THEN parse_string_list(s2, target_state, container, character_set)
        ELSE R([s2 EXCEPT ![container] = ResizeList(@, s2.next_list_index),
                          !.state = target_state], ok)

RECURSIVE SkipWhileBefore(_, _)
SkipWhileBefore(s, target_state) ==
    IF s.state < target_state
    THEN LET k  == skip_token(s.tokenizer, find_newline_or_tab(s.tokenizer))
             s1 == [s EXCEPT !.tokenizer = k.t]
         IN  IF ~k.ret
             THEN R([s1 EXCEPT !.fields_to_skip = target_state - s.state,
                               !.state = target_state], need_more_data)
             ELSE IF at_eol(k.t)
             THEN missing_mandatory_field_error(
                      s1, s.state - parsing_chrom + 1)
             ELSE SkipWhileBefore([s1 EXCEPT !.state = @ + 1], target_state)
    ELSE R(s, ok)

\* skip_to_state without the test that the state is not behind the target.
skip_to_state_from_any_column(s, target_state) ==
    IF s.state < parsing_chrom THEN R(s, error)
    ELSE SkipWhileBefore(s, target_state)

\* The assertions are compiled out (NDEBUG): a call in a wrong state
\* returns error.
skip_to_state(s, target_state) ==
    IF s.state < parsing_chrom THEN R(s, error)
    ELSE IF s.state > target_state THEN R(s, error)
    ELSE SkipWhileBefore(s, target_state)

---------------------------------------------------------------------------
(* VCF_scanner::continue_parsing_header                                    *)

FileformatKey ==
    <<"#", "#", "f", "i", "l", "e", "f", "o", "r", "m", "a", "t">>

\* Label end_of_header_line.
EndOfHeaderLine(s) ==
    IF buffer_is_empty(s.tokenizer) /\ ~tokenizer_at_eof(s.tokenizer)
    THEN R([s EXCEPT !.state = peeking_beyond_newline], need_more_data)
    ELSE R(reset_state_for_next_data_line(s), ok)

\* case parsing_sample_ids.
RECURSIVE HeaderSampleIds(_)

\* case parsing_sample_ids with the sample IDs stored last to first.
HeaderSampleIdsReversed(s) ==
    LET p  == prepare_token_or_accumulate(
                  s.tokenizer, find_newline_or_tab(s.tokenizer))
        s1 == [s EXCEPT !.tokenizer = p.t]
        s2 == [s1 EXCEPT !.header.sample_ids = <<p.t.token>> \o @]
    IN  IF ~p.ret THEN R(s1, need_more_data)
        ELSE IF p.t.terminator = "\t" THEN HeaderSampleIds(s2)
        ELSE EndOfHeaderLine(s2)

HeaderSampleIds(s) ==
    LET p  == prepare_token_or_accumulate(
                  s.tokenizer, find_newline_or_tab(s.tokenizer))
        s1 == [s EXCEPT !.tokenizer = p.t]
        s2 == [s1 EXCEPT !.header.sample_ids = Append(@, p.t.token)]
    IN  IF ~p.ret THEN R(s1, need_more_data)
        ELSE IF p.t.terminator = "\t" THEN HeaderSampleIds(s2)
        ELSE EndOfHeaderLine(s2)

\* case parsing_header_line_columns.
RECURSIVE HeaderLineColumns(_)
HeaderLineColumns(s) ==
    LET p  == prepare_token_or_accumulate(
                  s.tokenizer, find_newline_or_tab(s.tokenizer))
        s1 == [s EXCEPT !.tokenizer = p.t]
        s2 == [s1 EXCEPT !.header_line_column_ok = @ + 1]
    IN  IF ~p.ret THEN R(s1, need_more_data)
        ELSE IF p.t.token # get_header_line_column(s.header_line_column_ok)
        THEN invalid_header_line_error(s1)
        ELSE IF at_eol(p.t)
        THEN IF s2.header_line_column_ok < number_of_mandatory_columns
             THEN invalid_header_line_error(s2)
             ELSE EndOfHeaderLine(
                      IF s2.header_line_column_ok
                             > number_of_mandatory_columns
                      THEN [s2 EXCEPT !.header.genotype_info_present = TRUE]
                      ELSE s2)
        ELSE IF s2.header_line_column_ok <= number_of_mandatory_columns
        THEN HeaderLineColumns(s2)
        ELSE HeaderSampleIds(
                 [s2 EXCEPT !.header.genotype_info_present = TRUE,
                            !.state = parsing_sample_ids])

RECURSIVE HeaderMetainfoKey(_)

\* case parsing_metainfo_value that takes the end of the input for the end
\* of the line.
HeaderMetainfoValueAtEof(s) ==
    LET p  == prepare_token_or_accumulate(
                  s.tokenizer, find_newline(s.tokenizer))
        s1 == [s EXCEPT !.tokenizer = p.t]
    IN  IF ~p.ret THEN R(s1, need_more_data)
        ELSE HeaderMetainfoKey(
                 [s1 EXCEPT !.header = add_meta_info(
                                @, s.current_meta_info_key, p.t.token),
                            !.state = parsing_metainfo_key])

\* case parsing_metainfo_value.
HeaderMetainfoValue(s) ==
    LET p  == prepare_token_or_accumulate(
                  s.tokenizer, find_newline(s.tokenizer))
        s1 == [s EXCEPT !.tokenizer = p.t]
    IN  IF ~p.ret THEN R(s1, need_more_data)
        ELSE IF p.t.terminator = EOF
        THEN header_error(s1,
                 "Unexpected end of file while parsing VCF file header")
        ELSE HeaderMetainfoKey(
                 [s1 EXCEPT !.header = add_meta_info(
                                @, s.current_meta_info_key, p.t.token),
                            !.state = parsing_metainfo_key])

\* case parsing_metainfo_key.  substr(1) of an empty token throws
\* std::out_of_range, which nothing catches.
HeaderMetainfoKey(s) ==
    LET p   == prepare_token_or_accumulate(
                   s.tokenizer,
                   find_char_from_set(s.tokenizer, newline_or_tab_or_equals))
        s1  == [s EXCEPT !.tokenizer = p.t]
        key == p.t.token
    IN  IF ~p.ret THEN R(s1, need_more_data)
        ELSE IF at_eol(p.t) THEN invalid_meta_info_line_error(s1)
        ELSE IF p.t.terminator = "\t"
        THEN IF Len(key) = 0 THEN R(s1, terminated)
             ELSE IF SubSeq(key, 2, Len(key)) # get_header_line_column(0)
             THEN invalid_meta_info_line_error(s1)
             ELSE HeaderLineColumns(
                      [s1 EXCEPT !.header_line_column_ok = 1,
                                 !.state = parsing_header_line_columns])
        ELSE IF Len(key) < 3 \/ key[1] # "#" \/ key[2] # "#"
        THEN invalid_meta_info_line_error(s1)
        ELSE HeaderMetainfoValue(
                 [s1 EXCEPT !.current_meta_info_key =
                                SubSeq(key, 3, Len(key)),
                            !.state = parsing_metainfo_value])

\* case parsing_fileformat without the comparison of the key.
HeaderFileformatAnyKey(s) ==
    LET p  == prepare_token_or_accumulate(
                  s.tokenizer, find_newline(s.tokenizer))
        s1 == [s EXCEPT !.tokenizer = p.t]
        kv == get_key_value(p.t, "=")
    IN  IF ~p.ret THEN R(s1, need_more_data)
        ELSE IF ~kv.ret
        THEN header_error(s1, "VCF files must start with '##fileformat'")
        ELSE HeaderMetainfoKey(
                 [s1 EXCEPT !.header.file_format_version = kv.value,
                            !.state = parsing_metainfo_key])

\* case parsing_fileformat.
HeaderFileformat(s) ==
    LET p  == prepare_token_or_accumulate(
                  s.tokenizer, find_newline(s.tokenizer))
        s1 == [s EXCEPT !.tokenizer = p.t]
        kv == get_key_value(p.t, "=")
    IN  IF ~p.ret THEN R(s1, need_more_data)
        ELSE IF ~kv.ret \/ kv.key # FileformatKey
        THEN header_error(s1, "VCF files must start with '##fileformat'")
        ELSE HeaderMetainfoKey(
                 [s1 EXCEPT !.header.file_format_version = kv.value,
                            !.state = parsing_metainfo_key])

continue_parsing_header(s) ==
    CASE s.state = parsing_fileformat -> HeaderFileformat(s)
      [] s.state = parsing_metainfo_key -> HeaderMetainfoKey(s)
      [] s.state = parsing_metainfo_value -> HeaderMetainfoValue(s)
      [] s.state = parsing_header_line_columns -> HeaderLineColumns(s)
      [] s.state = parsing_sample_ids -> HeaderSampleIds(s)
      [] OTHER -> EndOfHeaderLine(s)

---------------------------------------------------------------------------
(* VCF_scanner: the fields of a data line                                  *)

continue_parsing_pos(s) ==
    LET u  == parse_uint(s.tokenizer, s.pos, s.number_len)
        s1 == [s EXCEPT !.tokenizer = u.t, !.pos = u.number,
                        !.number_len = u.number_len]
    IN  IF u.res = end_of_buffer THEN R(s1, need_more_data)
        ELSE IF u.res = integer_overflow
        THEN data_line_error(s1, <<"Integer overflow in the POS column">>)
        ELSE IF s1.number_len = 0
        THEN data_line_error(s1, <<"Missing an integer in the POS column">>)
        ELSE IF u.t.terminator # "\t"
        THEN data_line_error(s1, <<"Invalid data line format">>)
        ELSE R([s1 EXCEPT !.state = parsing_id], ok)

\* parse_string(parsing_pos), chrom = token, continue_parsing_pos():
\* the body shared by parse_loc and feed.
ParseChromThenPos(s) ==
    LET r == parse_string(s, parsing_pos)
    IN  IF r.ev # ok THEN r
        ELSE continue_parsing_pos(
                 [r.s EXCEPT !.chrom = r.s.tokenizer.token])

continue_parsing_ids(s) ==
    parse_string_list(s, parsing_ref, "ids", newline_or_tab_or_semicolon)

continue_parsing_alts(s) ==
    LET r == parse_string_list(s, parsing_quality, "alts",
                               newline_or_tab_or_comma)
    IN  IF r.ev = ok THEN R([r.s EXCEPT !.alleles_parsed = TRUE], ok)
        ELSE r

\* parse_string(parsing_alt), ref = token, continue_parsing_alts():
\* the body shared by parse_alleles and feed.
ParseRefThenAlts(s) ==
    LET r == parse_string(s, parsing_alt)
    IN  IF r.ev # ok THEN r
        ELSE continue_parsing_alts([r.s EXCEPT !.ref = r.s.tokenizer.token])

continue_parsing_quality(s) ==
    LET r == parse_string(s, parsing_filter)
    IN  IF r.ev # ok THEN r
        ELSE R([r.s EXCEPT !.quality =
                    IF ~token_is_dot(r.s.tokenizer)
                    THEN r.s.tokenizer.token ELSE <<>>], ok)

continue_parsing_filters(s) ==
    parse_string_list(s, parsing_info_field, "filters",
                      newline_or_tab_or_semicolon)

RECURSIVE continue_parsing_info(_)
continue_parsing_info(s) ==
    LET p  == prepare_token_or_accumulate(
                  s.tokenizer,
                  find_char_from_set(s.tokenizer,
                                     newline_or_tab_or_semicolon))
        s1 == [s EXCEPT !.tokenizer = p.t]
        s2 == IF ~token_is_dot(p.t)
              THEN [s1 EXCEPT !.info = Append(@, p.t.token)]
              ELSE s1
    IN  IF ~p.ret THEN R(s1, need_more_data)
        ELSE IF at_eol(p.t)
        THEN R([s1 EXCEPT !.state = end_of_data_line], ok)
        ELSE IF p.t.terminator # "\t" THEN continue_parsing_info(s2)
        ELSE R([s2 EXCEPT !.state = parsing_genotype_format], ok)

\* ++number_of_positions of a member that parse_genotype_format cleared.
RECURSIVE continue_parsing_genotype_format(_)

\* continue_parsing_genotype_format with the test of sample_ids inverted:
\* a FORMAT column that ends the line is an error when no sample is
\* declared.
genotype_format_refusing_no_samples(s) ==
    LET p   == prepare_token_or_accumulate(
                   s.tokenizer,
                   find_char_from_set(s.tokenizer, newline_or_tab_or_colon))
        s1  == [s EXCEPT !.tokenizer = p.t]
        key == p.t.token
        n   == s.number_of_positions + 1
        s2  == IF key = <<"G", "T">>
               THEN [s1 EXCEPT !.format_keys = @ \cup {key},
                               !.number_of_positions = n,
                               !.gt_position = n]
               ELSE [s1 EXCEPT !.format_keys = @ \cup {key},
                               !.number_of_positions = n,
                               !.other_keys =
                                   [k \in (DOMAIN @) \cup {key} |->
                                       IF k = key THEN n ELSE @[k]]]
    IN  IF ~p.ret THEN R(s1, need_more_data)
        ELSE IF at_eol(p.t)
        THEN IF Len(s.header.sample_ids) # 0
             THEN R([s1 EXCEPT !.state = end_of_data_line], ok)
             ELSE data_line_error(
                      [s1 EXCEPT !.state = end_of_data_line],
                      <<"No genotype information present">>)
        ELSE IF p.t.terminator # "\t"
        THEN continue_parsing_genotype_format(s2)
        ELSE R([reset_genotype_values(s2) EXCEPT
                    !.state = parsing_genotypes], ok)

continue_parsing_genotype_format(s) ==
    LET p   == prepare_token_or_accumulate(
                   s.tokenizer,
                   find_char_from_set(s.tokenizer, newline_or_tab_or_colon))
        s1  == [s EXCEPT !.tokenizer = p.t]
        key == p.t.token
        n   == s.number_of_positions + 1
        s2  == IF key = <<"G", "T">>
               THEN [s1 EXCEPT !.format_keys = @ \cup {key},
                               !.number_of_positions = n,
                               !.gt_position = n]
               ELSE [s1 EXCEPT !.format_keys = @ \cup {key},
                               !.number_of_positions = n,
                               !.other_keys =
                                   [k \in (DOMAIN @) \cup {key} |->
                                       IF k = key THEN n ELSE @[k]]]
    IN  IF ~p.ret THEN R(s1, need_more_data)
        ELSE IF at_eol(p.t)
        THEN IF Len(s.header.sample_ids) = 0
             THEN R([s1 EXCEPT !.state = end_of_data_line], ok)
             ELSE data_line_error(
                      [s1 EXCEPT !.state = end_of_data_line],
                      <<"No genotype information present">>)
        ELSE IF p.t.terminator # "\t"
        THEN continue_parsing_genotype_format(s2)
        ELSE R([reset_genotype_values(s2) EXCEPT
                    !.state = parsing_genotypes], ok)

---------------------------------------------------------------------------
(* VCF_scanner: genotypes                                                  *)

NoError == <<>>

\* The terminating NUL of std::string::data().
NUL == "NUL"

ByteAt(token, i) == IF i \in 1..Len(token) THEN token[i] ELSE NUL

\* (int) allele of an unsigned allele.
ToInt(allele) ==
    IF allele >= 2^(UIntBits - 1) THEN allele - 2^UIntBits ELSE allele

\* while (--len > 0 && (digit = *++ptr - '0') <= 9) of parse_gt; i is ptr's
\* index in the token.
RECURSIVE GtDigits(_, _, _, _)
GtDigits(token, allele, i, len) ==
    IF len - 1 > 0 /\ DigitOf(ByteAt(token, i + 1)) <= 9
    THEN LET digit == DigitOf(ByteAt(token, i + 1))
         IN  IF \/ allele > UINT_MAX \div 10
                \/ (allele = UINT_MAX \div 10 /\ digit > UINT_MAX % 10)
             THEN [ overflow |-> TRUE, allele |-> allele, i |-> i + 1,
                    len |-> len - 1 ]
             ELSE GtDigits(token, allele * 10 + digit, i + 1, len - 1)
    ELSE [ overflow |-> FALSE, allele |-> allele,
           i |-> IF len - 1 > 0 THEN i + 1 ELSE i, len |-> len - 1 ]

\* One turn of the for loop of parse_gt, from its body to its continue.
RECURSIVE GtLoop(_, _, _)
GtLoop(s, i, len) ==
    LET token == s.tokenizer.token
        c     == ByteAt(token, i)
        d     == GtDigits(token, DigitOf(c), i, len)
        s1    == IF c = "." THEN [s EXCEPT !.gt = Append(@, -1)]
                 ELSE [s EXCEPT !.gt = Append(@, ToInt(d.allele))]
        i1    == IF c = "." THEN i + 1 ELSE d.i
        len1  == IF c = "." THEN len - 1 ELSE d.len
        sep   == ByteAt(token, i1)
    IN  IF c # "." /\ DigitOf(c) > 9
        THEN [ s |-> s, err |-> <<"Invalid character in GT value">> ]
        ELSE IF c # "." /\ d.overflow
        THEN [ s |-> s, err |-> <<"Integer overflow in allele index">> ]
        ELSE IF c # "." /\ s.alleles_parsed /\ d.allele > Len(s.alts)
        THEN [ s |-> s1,
               err |-> <<"Allele index exceeds the number of alleles">> ]
        ELSE IF len1 = 0 THEN [ s |-> s1, err |-> NoError ]
        ELSE IF sep = "/"
        THEN GtLoop([s1 EXCEPT !.phased_gt = FALSE,
                               !.phased_gt_written = TRUE],
                    i1 + 1, len1 - 1)
        ELSE IF sep = "|"
        THEN GtLoop([s1 EXCEPT !.phased_gt = TRUE,
                               !.phased_gt_written = TRUE],
                    i1 + 1, len1 - 1)
        ELSE [ s |-> s1, err |-> <<"Invalid character in GT value">> ]

\* parse_gt that checks the allele range whether or not parse_alleles was
\* called.
parse_gt_always_checking_range(s) ==
    LET s0 == [s EXCEPT !.gt = <<>>, !.alleles_parsed = TRUE]
    IN  IF Len(s.tokenizer.token) = 0
        THEN [ s |-> s0, err |-> <<"Empty GT value">> ]
        ELSE GtLoop(s0, 1, Len(s.tokenizer.token))

parse_gt(s) ==
    LET s0 == [s EXCEPT !.gt = <<>>]
    IN  IF Len(s.tokenizer.token) = 0
        THEN [ s |-> s0, err |-> <<"Empty GT value">> ]
        ELSE GtLoop(s0, 1, Len(s.tokenizer.token))

\* What a read past the end of genotype_values can yield: a null pointer,
\* a non-null pointer with either data type, or a memory fault.
MemoryFault == "memory_fault"

WildValues ==
    { [ flag |-> FALSE, data_type |-> vcf_integer ],
      [ flag |-> TRUE,  data_type |-> vcf_integer ],
      [ flag |-> TRUE,  data_type |-> vcf_gt ],
      [ flag |-> FALSE, data_type |-> MemoryFault ] }

\* genotype_values.data()[index]: the slot, or `wild' when there is none.
GenotypeValueAt(s, index, wild) ==
    IF index < Len(s.genotype_values)
    THEN s.genotype_values[index + 1]
    ELSE wild

RECURSIVE continue_parsing_genotype(_, _)

\* The end of the do-while body of continue_parsing_genotype.
GenotypeNextValue(s, wild) ==
    IF s.tokenizer.terminator = "\t"
    THEN R([s EXCEPT !.current_genotype_field_index = @ + 1], ok)
    ELSE IF s.current_genotype_value_index + 1 < s.number_of_positions
    THEN continue_parsing_genotype(
             [s EXCEPT !.current_genotype_value_index = @ + 1], wild)
    ELSE data_line_error(
             [s EXCEPT !.current_genotype_value_index = @ + 1],
             <<"Too many genotype info fields">>)

continue_parsing_genotype(s, wild) ==
    LET value == GenotypeValueAt(s, s.current_genotype_value_index, wild)
        k  == skip_token(s.tokenizer,
                  find_char_from_set(s.tokenizer, newline_or_tab_or_colon))
        p  == prepare_token_or_accumulate(s.tokenizer,
                  find_char_from_set(s.tokenizer, newline_or_tab_or_colon))
        sk == [s EXCEPT !.tokenizer = k.t]
        sp == [s EXCEPT !.tokenizer = p.t,
                        !.state = IF at_eol(p.t) THEN end_of_data_line ELSE @]
        g  == IF value.data_type = vcf_gt THEN parse_gt(sp)
              ELSE [ s |-> sp, err |-> NoError ]
    IN  IF value.data_type = MemoryFault THEN R(s, terminated)
        ELSE IF ~value.flag
        THEN IF ~k.ret THEN R(sk, need_more_data)
             ELSE IF at_eol(k.t)
             THEN R([sk EXCEPT !.state = end_of_data_line], ok)
             ELSE GenotypeNextValue(sk, wild)
        ELSE IF ~p.ret
             THEN R([s EXCEPT !.tokenizer = p.t], need_more_data)
             ELSE IF g.err # NoError THEN data_line_error(g.s, g.err)
             ELSE IF at_eol(p.t) THEN R(g.s, ok)
             ELSE GenotypeNextValue(g.s, wild)

---------------------------------------------------------------------------
(* VCF_scanner: the public operations                                      *)

\* feed without the loop that resumes an interrupted skip.
FeedSkipNothing(s) == R(s, ok)

\* The for loop of feed that resumes an interrupted skip_to_state.
RECURSIVE FeedSkipFields(_)
FeedSkipFields(s) ==
    IF s.fields_to_skip > 0
    THEN LET k  == skip_token(s.tokenizer, find_newline_or_tab(s.tokenizer))
             s1 == [s EXCEPT !.tokenizer = k.t]
         IN  IF ~k.ret THEN R(s1, need_more_data)
             ELSE IF at_eol(k.t)
             THEN missing_mandatory_field_error(
                      [s1 EXCEPT !.fields_to_skip = 0],
                      s.state - parsing_chrom + 1 - s.fields_to_skip)
             ELSE FeedSkipFields([s1 EXCEPT !.fields_to_skip = @ - 1])
    ELSE R(s, ok)

\* case skipping_to_next_line of feed.
FeedSkipLine(s) ==
    LET k  == skip_token(s.tokenizer, find_newline(s.tokenizer))
        s1 == [s EXCEPT !.tokenizer = k.t]
    IN  IF ~k.ret THEN R(s1, need_more_data)
        ELSE IF buffer_is_empty(k.t) /\ ~tokenizer_at_eof(k.t)
        THEN R([s1 EXCEPT !.state = peeking_beyond_newline], need_more_data)
        ELSE R(reset_state_for_next_data_line(s1), ok)

\* The switch of feed.
FeedSwitch(s) ==
    CASE s.state = parsing_id -> continue_parsing_ids(s)
      [] s.state = parsing_ref -> ParseRefThenAlts(s)
      [] s.state = parsing_alt -> continue_parsing_alts(s)
      [] s.state = parsing_quality -> continue_parsing_quality(s)
      [] s.state = parsing_filter -> continue_parsing_filters(s)
      [] s.state = parsing_info_field -> continue_parsing_info(s)
      [] s.state = parsing_genotype_format ->
             continue_parsing_genotype_format(s)
      [] s.state = skipping_to_next_line -> FeedSkipLine(s)
      [] s.state = peeking_beyond_newline ->
             R(reset_state_for_next_data_line(s), ok)
      [] OTHER -> R(s, error)

feed(s, buffer, wild) ==
    LET s0 == [s EXCEPT !.tokenizer = set_new_buffer(@, buffer)]
        k  == FeedSkipFields(s0)
    IN  IF s0.state = parsing_genotypes
        THEN continue_parsing_genotype(s0, wild)
        ELSE IF s0.state < parsing_chrom THEN continue_parsing_header(s0)
        ELSE IF s0.state = parsing_chrom THEN ParseChromThenPos(s0)
        ELSE IF s0.state = parsing_pos THEN continue_parsing_pos(s0)
        ELSE IF k.ev # ok THEN k
        ELSE FeedSwitch(k.s)

get_line_number(s) == s.tokenizer.line_number

at_eof(s) == tokenizer_at_eof(s.tokenizer)

parse_loc(s) ==
    IF s.state # parsing_chrom THEN R(s, error)
    ELSE ParseChromThenPos([s EXCEPT !.pos = 0, !.number_len = 0])

parse_ids(s) ==
    LET r == skip_to_state([s EXCEPT !.next_list_index = 0], parsing_id)
    IN  IF r.ev # ok THEN r ELSE continue_parsing_ids(r.s)

parse_alleles(s) ==
    LET r == skip_to_state([s EXCEPT !.next_list_index = 0], parsing_ref)
    IN  IF r.ev # ok THEN r ELSE ParseRefThenAlts(r.s)

parse_quality(s) ==
    LET r == skip_to_state(s, parsing_quality)
    IN  IF r.ev # ok THEN r ELSE continue_parsing_quality(r.s)

parse_filters(s) ==
    LET r == skip_to_state([s EXCEPT !.next_list_index = 0], parsing_filter)
    IN  IF r.ev # ok THEN r ELSE continue_parsing_filters(r.s)

parse_info(s) ==
    LET r == skip_to_state([s EXCEPT !.info = <<>>], parsing_info_field)
    IN  IF r.ev # ok THEN r ELSE continue_parsing_info(r.s)

parse_genotype_format(s) ==
    LET r == skip_to_state([s EXCEPT !.key_positions_written = TRUE,
                                     !.gt_position = 0,
                                     !.number_of_positions = 0,
                                     !.other_keys = <<>>],
                           parsing_genotype_format)
    IN  IF r.ev # ok THEN r ELSE continue_parsing_genotype_format(r.s)

\* capture_gt; `junk' is what genotype_key_positions.gt reads before
\* parse_genotype_format has ever cleared it.
capture_gt(s, junk) ==
    LET gt_index == IF ~s.key_positions_written THEN junk
                    ELSE s.gt_position
        s1 == alloc_genotype_value(s, gt_index - 1)
    IN  IF gt_index = 0 THEN [ s |-> s, ret |-> FALSE ]
        ELSE [ s   |-> [s1 EXCEPT !.genotype_values[gt_index] =
                                      [ flag |-> TRUE, data_type |-> vcf_gt ]],
               ret |-> TRUE ]

\* parse_genotype that admits one genotype field more than there are
\* samples.
parse_genotype_admitting_one_more(s, wild) ==
    IF s.state # parsing_genotypes THEN R(s, error)
    ELSE IF s.current_genotype_field_index > Len(s.header.sample_ids)
    THEN data_line_error(s,
             <<"The number of genotype fields exceeds the number of samples">>)
    ELSE continue_parsing_genotype(
             [s EXCEPT !.current_genotype_value_index = 0], wild)

parse_genotype(s, wild) ==
    IF s.state # parsing_genotypes THEN R(s, error)
    ELSE IF s.current_genotype_field_index >= Len(s.header.sample_ids)
    THEN data_line_error(s,
             <<"The number of genotype fields exceeds the number of samples">>)
    ELSE continue_parsing_genotype(
             [s EXCEPT !.current_genotype_value_index = 0], wild)

get_gt(s) == s.gt

\* is_phased_gt; `junk' is what phased_gt reads before parse_gt has ever
\* written it.
is_phased_gt(s, junk) == IF s.phased_gt_written THEN s.phased_gt ELSE junk

\* genotype_available that takes every terminator but the newline for the
\* start of another genotype field.
genotype_available_unless_newline(s) == s.tokenizer.terminator # "\n"

genotype_available(s) == s.tokenizer.terminator = "\t"

\* clear_line that returns ok at the end of a buffer without peeking
\* beyond the newline.
clear_line_without_peeking(s) ==
    LET k  == skip_token(s.tokenizer, find_newline(s.tokenizer))
        s1 == IF ~at_eof(s) /\ s.state # peeking_beyond_newline
                 /\ s.state # end_of_data_line
              THEN [s EXCEPT !.tokenizer = k.t]
              ELSE s
    IN  IF ~at_eof(s) /\ s.state # peeking_beyond_newline
        THEN IF s.state # end_of_data_line /\ ~k.ret
             THEN R([s1 EXCEPT !.state = skipping_to_next_line],
                    need_more_data)
             ELSE R(reset_state_for_next_data_line(s1), ok)
        ELSE R(reset_state_for_next_data_line(s1), ok)

\* clear_line that starts over with an empty header when it moves to the
\* next line.
clear_line_resetting_header(s) ==
    LET k  == skip_token(s.tokenizer, find_newline(s.tokenizer))
        s1 == IF ~at_eof(s) /\ s.state # peeking_beyond_newline
                 /\ s.state # end_of_data_line
              THEN [s EXCEPT !.tokenizer = k.t]
              ELSE s
        s2 == [reset_state_for_next_data_line(s1) EXCEPT !.header = HeaderInit]
    IN  IF ~at_eof(s) /\ s.state # peeking_beyond_newline
        THEN IF s.state # end_of_data_line /\ ~k.ret
             THEN R([s1 EXCEPT !.state = skipping_to_next_line],
                    need_more_data)
             ELSE IF buffer_is_empty(s1.tokenizer)
             THEN R([s1 EXCEPT !.state = peeking_beyond_newline],
                    need_more_data)
             ELSE R(s2, ok)
        ELSE R(s2, ok)

clear_line(s) ==
    LET k  == skip_token(s.tokenizer, find_newline(s.tokenizer))
        s1 == IF ~at_eof(s) /\ s.state # peeking_beyond_newline
                 /\ s.state # end_of_data_line
              THEN [s EXCEPT !.tokenizer = k.t]
              ELSE s
    IN  IF ~at_eof(s) /\ s.state # peeking_beyond_newline
        THEN IF s.state # end_of_data_line /\ ~k.ret
             THEN R([s1 EXCEPT !.state = skipping_to_next_line],
                    need_more_data)
             ELSE IF buffer_is_empty(s1.tokenizer)
             THEN R([s1 EXCEPT !.state = peeking_beyond_newline],
                    need_more_data)
             ELSE R(reset_state_for_next_data_line(s1), ok)
        ELSE R(reset_state_for_next_data_line(s1), ok)

---------------------------------------------------------------------------
(* The input files                                                         *)

RECURSIVE Join(_, _)
\* The byte sequences of `parts' with `sep' between them.
Join(parts, sep) ==
    IF Len(parts) = 0 THEN <<>>
    ELSE IF Len(parts) = 1 THEN parts[1]
    ELSE parts[1] \o <<sep>> \o Join(Tail(parts), sep)

FileformatLine == FileformatKey \o <<"=", "V", "\n">>

\* The header line with the 8 mandatory columns, FORMAT and the samples.
HeaderLine(with_format, samples) ==
    <<"#">> \o Join(SubSeq(Columns, 1, number_of_mandatory_columns), "\t")
    \o (IF with_format THEN <<"\t">> \o Columns[9] ELSE <<>>)
    \o (IF Len(samples) > 0 THEN <<"\t">> \o Join(samples, "\t") ELSE <<>>)
    \o <<"\n">>

HeaderNoGenotypes == FileformatLine \o HeaderLine(FALSE, <<>>)
HeaderOneSample == FileformatLine \o HeaderLine(TRUE, << <<"S">> >>)

\* A complete data line: CHROM .. INFO, FORMAT and one genotype field.
BaseFields ==
    << <<"1">>, <<"5">>, <<"a">>, <<"C">>, <<"G">>, <<"9">>, <<"P">>,
       <<"K">>, <<"G", "T">>, <<"0", "|", "1">> >>

\* The first n fields of `fields' as a line without its terminator.
LineOf(fields, n) == Join(SubSeq(fields, 1, n), "\t")

With(fields, column, value) == [fields EXCEPT ![column] = value]

---------------------------------------------------------------------------
(* The caller (tests/test_plan.hh): it feeds a buffer of chunk_size bytes  *)
(* whenever the last call returned need_more_data, and otherwise calls     *)
(* any operation.                                                          *)

NoPeer == [ on |-> FALSE ]
NoTokenizer == [ on |-> FALSE ]

Min(a, b) == IF a < b THEN a ELSE b

\* The next buffer Test_reader::read_and_feed hands over.
NextChunk(data, done, size) ==
    SubSeq(data, done + 1, done + Min(size, Len(data) - done))

ChunkSizes(data) == (1..MaxChunk) \cup {Len(data)}

\* The out-of-bounds reads possible in the next call.
WildFor(s) ==
    IF s.state = parsing_genotypes THEN WildValues ELSE {ZeroGenotypeValue}

JunkFor(s) == IF ~s.key_positions_written THEN 0..1 ELSE {0}

Snapshot(s, e, o, n) == [ sc |-> s, ev |-> e, op |-> o, fed |-> n ]

InitWith(inputs) ==
    /\ input \in inputs
    /\ chunk_size \in ChunkSizes(input)
    /\ fed = 0
    /\ sc = ScannerInit
    /\ ev = need_more_data
    /\ op = "header"
    /\ calls = 0
    /\ before = Snapshot(ScannerInit, need_more_data, "header", 0)
    /\ peer = NoPeer
    /\ tz = NoTokenizer

Feed ==
    /\ ev = need_more_data
    /\ \E wild \in WildFor(sc) :
          LET chunk == NextChunk(input, fed, chunk_size)
              r     == feed(sc, chunk, wild)
          IN  /\ sc' = r.s
              /\ ev' = r.ev
              /\ fed' = fed + Len(chunk)
    /\ UNCHANGED <<input, chunk_size, op, calls, before, peer, tz>>

\* The caller may call an operation when the last call has returned; a run
\* makes at most MaxCalls calls after the header.
Idle == ev \notin {need_more_data, terminated} /\ calls < MaxCalls

Call(name, r) ==
    /\ sc' = r.s
    /\ ev' = r.ev
    /\ op' = name
    /\ calls' = calls + 1
    /\ before' = Snapshot(sc, ev, op, fed)
    /\ UNCHANGED <<input, chunk_size, fed, peer, tz>>

ParseLoc == Idle /\ Call("parse_loc", parse_loc(sc))
ParseIds == Idle /\ Call("parse_ids", parse_ids(sc))
ParseAlleles == Idle /\ Call("parse_alleles", parse_alleles(sc))
ParseQuality == Idle /\ Call("parse_quality", parse_quality(sc))
ParseFilters == Idle /\ Call("parse_filters", parse_filters(sc))
ParseInfo == Idle /\ Call("parse_info", parse_info(sc))
ParseGenotypeFormat ==
    Idle /\ Call("parse_genotype_format", parse_genotype_format(sc))
CaptureGt ==
    /\ Idle
    /\ \E junk \in JunkFor(sc) :
          LET c == capture_gt(sc, junk)
          IN  Call("capture_gt", R(c.s, IF c.ret THEN "true" ELSE "false"))
ParseGenotype ==
    /\ Idle
    /\ \E wild \in WildFor(sc) :
          Call("parse_genotype", parse_genotype(sc, wild))
ClearLine == Idle /\ Call("clear_line", clear_line(sc))

Next ==
    \/ Feed
    \/ ParseLoc
    \/ ParseIds
    \/ ParseAlleles
    \/ ParseQuality
    \/ ParseFilters
    \/ ParseInfo
    \/ ParseGenotypeFormat
    \/ CaptureGt
    \/ ParseGenotype
    \/ ClearLine

LF == <<"\n">>
CRLF == <<"\r", "\n">>

\* Two complete records; a record that ends after POS, before a complete
\* record without a final newline; a CRLF file whose first record ends
\* after ID.
TestInputs ==
    { HeaderOneSample \o LineOf(BaseFields, 10) \o LF
                      \o LineOf(BaseFields, 10) \o LF,
      HeaderOneSample \o LineOf(BaseFields, 2) \o LF
                      \o LineOf(BaseFields, 10),
      HeaderOneSample \o LineOf(BaseFields, 3) \o CRLF
                      \o LineOf(BaseFields, 10) \o CRLF }

Init == InitWith(TestInputs)

Spec == Init /\ [][Next]_vars

---------------------------------------------------------------------------
(* Positions in the input                                                  *)

\* Number of bytes of the input the tokenizer of s has read, n bytes
\* having been fed.
Consumed(s, n) == n - Len(s.tokenizer.buf)

\* Number of LF bytes among the first n bytes of data.
CountLF(data, n) == Cardinality({ i \in 1..n : data[i] = "\n" })

\* Offset of the first byte of the line that holds the byte at offset p
\* (offsets count the bytes in front: the next byte read at p is
\* input[p + 1]).
LineStart(p) ==
    CHOOSE q \in 0..p :
        /\ q = 0 \/ input[q] = "\n"
        /\ \A r \in (q + 1)..p : input[r] # "\n"

\* Index of the LF that ends the line starting at offset a, or
\* Len(input) + 1 when the end of the input ends it.
LineEnd(a) ==
    CHOOSE e \in (a + 1)..(Len(input) + 1) :
        /\ e = Len(input) + 1 \/ input[e] = "\n"
        /\ \A r \in (a + 1)..(e - 1) : input[r] # "\n"

\* The line starting at offset a, without its LF or CR LF.
LineText(a) ==
    LET e   == LineEnd(a)
        raw == SubSeq(input, a + 1, e - 1)
    IN  IF e <= Len(input) /\ Len(raw) > 0 /\ raw[Len(raw)] = "\r"
        THEN SubSeq(raw, 1, Len(raw) - 1)
        ELSE raw

RECURSIVE Split(_, _)
\* The pieces of `bytes' between the occurrences of `sep'.
Split(bytes, sep) ==
    IF \A i \in 1..Len(bytes) : bytes[i] # sep THEN << bytes >>
    ELSE LET i == CHOOSE j \in 1..Len(bytes) :
                      /\ bytes[j] = sep
                      /\ \A k \in 1..(j - 1) : bytes[k] # sep
         IN  << SubSeq(bytes, 1, i - 1) >>
                 \o Split(SubSeq(bytes, i + 1, Len(bytes)), sep)

\* The tab-separated columns of the line starting at offset a.
ColumnsOfLine(a) == Split(LineText(a), "\t")

IsValue(token) == Len(token) > 0 /\ ~(Len(token) = 1 /\ token[1] = ".")

\* The sub-tokens of a column other than the empty ones and `.'.
ListOf(column, sep) == SelectSeq(Split(column, sep), IsValue)

\* The scanner s stands in front of the column its state names: n bytes
\* having been fed, it has read the line up to the tab in front of column
\* s.state - parsing_chrom + 1, or of the next genotype field.
Aligned(s, n) ==
    LET p == Consumed(s, n)
        a == LineStart(p)
        tabs == Cardinality({ i \in (a + 1)..p : input[i] = "\t" })
    IN  /\ s.state \in parsing_chrom..parsing_genotypes
        /\ p = a \/ input[p] = "\t"
        /\ IF s.state = parsing_genotypes
           THEN tabs = number_of_mandatory_columns + 1
                           + s.current_genotype_field_index
           ELSE tabs = s.state - parsing_chrom

\* The record in front of which, or in which, the last operation was
\* invoked, and its columns.
RecordStart == LineStart(Consumed(before.sc, before.fed))
RecordColumns == ColumnsOfLine(RecordStart)

\* The state in which the operation `name' parses its first column.
TargetState(name) ==
    CASE name = "parse_loc" -> parsing_chrom
      [] name = "parse_ids" -> parsing_id
      [] name = "parse_alleles" -> parsing_ref
      [] name = "parse_quality" -> parsing_quality
      [] name = "parse_filters" -> parsing_filter
      [] name = "parse_info" -> parsing_info_field
      [] name = "parse_genotype_format" -> parsing_genotype_format
      [] name = "parse_genotype" -> parsing_genotypes

\* The operations on the columns of a record.
FieldOps ==
    { "parse_loc", "parse_ids", "parse_alleles", "parse_quality",
      "parse_filters", "parse_info", "parse_genotype_format",
      "parse_genotype" }

\* The states in which the operation `name' does not fail its assertion.
InOrder(s, name) ==
    IF name \in {"parse_loc", "parse_genotype"}
    THEN s.state = TargetState(name)
    ELSE s.state >= parsing_chrom /\ s.state <= TargetState(name)

\* The last operation was a field operation invoked in order and with the
\* scanner standing in front of the column its state names.
FieldOpInvoked ==
    /\ op \in FieldOps
    /\ InOrder(before.sc, op)
    /\ Aligned(before.sc, before.fed)

\* Test_reader::read_and_feed: feeds buffers until feed returns something
\* other than need_more_data; `done' bytes have been fed before.
RECURSIVE read_and_feed(_, _, _, _)
read_and_feed(s, done, size, wild) ==
    LET chunk == NextChunk(input, done, size)
        r     == feed(s, chunk, wild)
    IN  IF r.ev = need_more_data
        THEN read_and_feed(r.s, done + Len(chunk), size, wild)
        ELSE [ s |-> r.s, ev |-> r.ev, fed |-> done + Len(chunk) ]

\* An operation's result r driven to completion by the caller.
Driven(r, done) ==
    IF r.ev = need_more_data
    THEN read_and_feed(r.s, done, chunk_size, ZeroGenotypeValue)
    ELSE [ s |-> r.s, ev |-> r.ev, fed |-> done ]

---------------------------------------------------------------------------
(* C5                                                                      *)

\* C5: in every state, get_line_number() is 1 plus the number of LF bytes
\* of the input read so far, so a step changes it by the number of LF
\* bytes the step's tokenizer operations read and by nothing else.
C5_LineNumber ==
    get_line_number(sc) = 1 + CountLF(input, Consumed(sc, fed))

\* clear_line, called after parse_info, has read the LF that ends the first
\* record, the input coming one byte per buffer.
C5_Witness ==
    /\ op = "clear_line" /\ ev = ok /\ chunk_size = 1
    /\ before.ev = ok /\ before.op = "parse_info"
    /\ get_line_number(before.sc) = 3 /\ get_line_number(sc) = 4

---------------------------------------------------------------------------
(* C9                                                                      *)

\* Records whose ID, ALT and FILTER columns hold two values, `.', empty
\* sub-tokens, and one value after a longer list.
ListFields(ids, alts, filters) ==
    With(With(With(BaseFields, 3, ids), 5, alts), 7, filters)

ListInputs ==
    { HeaderOneSample
          \o LineOf(ListFields(<<"a", ";", "b">>, <<"G", ",", "T">>,
                               <<"P", ";", "Q">>), 10) \o LF
          \o LineOf(ListFields(<<".">>, <<".">>, <<".">>), 8) \o LF,
      HeaderOneSample
          \o LineOf(ListFields(<<";", "a", ";", ".", ";", "b">>,
                               <<"G", ",", ",", "T">>,
                               <<".", ";", "P", ";">>), 10) \o CRLF
          \o LineOf(ListFields(<<"c">>, <<"T", ",">>, <<"Q">>), 10)
          \o CRLF }

SpecLists == InitWith(ListInputs) /\ [][Next]_vars

\* C9: when parse_ids, parse_alleles or parse_filters, invoked in front
\* of a column of a record, returns ok, the ID, ALT or FILTER list is the
\* list of the sub-tokens of that record's column 3, 5 or 7 (split on `;',
\* `,' and `;') without the empty ones and `.', whatever the list held
\* before and however many buffers the column came in.
C9_ListFields ==
    (ev = ok /\ Aligned(before.sc, before.fed)) =>
        /\ op = "parse_ids" => sc.ids = ListOf(RecordColumns[3], ";")
        /\ op = "parse_alleles" => sc.alts = ListOf(RecordColumns[5], ",")
        /\ op = "parse_filters" => sc.filters = ListOf(RecordColumns[7], ";")

\* parse_ids has read the ID column `.' of the second record, one byte
\* per buffer, into the list that held two IDs of the first record.
C9_Witness ==
    /\ op = "parse_ids" /\ ev = ok /\ chunk_size = 1
    /\ Aligned(before.sc, before.fed)
    /\ Len(before.sc.ids) = 2
    /\ RecordColumns[3] = <<".">>
    /\ sc.ids = <<>>

---------------------------------------------------------------------------
(* C8                                                                      *)

\* A record whose INFO column is followed by FORMAT, then a record that
\* ends with its INFO column: at an LF, at a CR LF, at the end of the input.
InfoInputs ==
    { HeaderOneSample
          \o LineOf(With(BaseFields, 8, <<"K", ";", ".", ";", "L">>), 10)
          \o eol
          \o LineOf(With(BaseFields, 8, <<"M", ";", "N">>), 8) \o last
      : eol \in {LF}, last \in {LF, CRLF, <<>>} }

SpecInfo == InitWith(InfoInputs) /\ [][Next]_vars

\* C8: when parse_info, invoked in front of a column of a record, returns
\* ok, get_info() is the list of the `;'-separated sub-tokens of the
\* record's column 8 without the empty ones and `.', and state is
\* parsing_genotype_format when a FORMAT column follows and
\* end_of_data_line when INFO is the last column of the line.
C8_InfoComplete ==
    (ev = ok /\ op = "parse_info" /\ Aligned(before.sc, before.fed)) =>
        /\ sc.info = ListOf(RecordColumns[8], ";")
        /\ sc.state = IF Len(RecordColumns) > 8
                      THEN parsing_genotype_format
                      ELSE end_of_data_line

\* C8, for the records that have a FORMAT column.
C8_InfoBeforeFormat ==
    (/\ ev = ok /\ op = "parse_info" /\ Aligned(before.sc, before.fed)
     /\ Len(RecordColumns) > 8) =>
        /\ sc.info = ListOf(RecordColumns[8], ";")
        /\ sc.state = parsing_genotype_format

\* parse_info has returned ok at the end of a record that ends with INFO.
C8_Witness ==
    /\ ev = ok /\ op = "parse_info" /\ Aligned(before.sc, before.fed)
    /\ Len(RecordColumns) = 8
    /\ sc.state = end_of_data_line

---------------------------------------------------------------------------
(* C10                                                                     *)

\* Bytes in front of and behind the POS digits of the first record: no
\* digit, one digit, leading zeros, UINT_MAX, UINT_MAX + 1 and larger
\* values, each followed by a tab, an LF, a CR LF, another byte or the end
\* of the input.
PosDigits ==
    { <<>>, <<"7">>, <<"0", "0", "9">>, <<"3", "1">>, <<"3", "2">>,
      <<"4", "0">>, <<"3", "1", "0">>, <<"6", "3">>, <<"6", "4">> }

PosEndings ==
    { <<"\t", "a", "\n">>, LF, CRLF, <<"x", "\t", "a", "\n">>, <<>> }

PosInputs ==
    { HeaderOneSample \o <<"1", "\t">> \o digits \o ending :
          digits \in PosDigits, ending \in PosEndings }
    \cup { HeaderOneSample \o LineOf(BaseFields, 10) \o LF }

SpecPos == InitWith(PosInputs) /\ [][Next]_vars

RECURSIVE DecimalValue(_)
DecimalValue(digits) ==
    IF Len(digits) = 0 THEN 0
    ELSE 10 * DecimalValue(SubSeq(digits, 1, Len(digits) - 1))
             + DigitOf(digits[Len(digits)])

\* Offset of the POS column of the record.
PosStart == RecordStart + Len(RecordColumns[1]) + 1

\* Number of digits the POS column starts with.
PosLen ==
    CHOOSE n \in 0..(Len(input) - PosStart) :
        /\ \A i \in 1..n : DigitOf(input[PosStart + i]) <= 9
        /\ PosStart + n = Len(input) \/ DigitOf(input[PosStart + n + 1]) > 9

PosValue == DecimalValue(SubSeq(input, PosStart + 1, PosStart + PosLen))

\* The byte behind the digits.
PosTerminator ==
    IF PosStart + PosLen = Len(input) THEN EOF
    ELSE input[PosStart + PosLen + 1]

\* parse_loc was invoked at the start of a record whose CHROM column ends
\* with a tab, and has returned.
ParseLocReturned ==
    /\ op = "parse_loc" /\ ev # need_more_data
    /\ before.sc.state = parsing_chrom
    /\ Aligned(before.sc, before.fed)
    /\ Len(RecordColumns) >= 2

\* C10: parse_loc returns ok with POS = the decimal value of the digits iff
\* there is a digit, the value is at most UINT_MAX and a tab follows; no
\* digit gives `Missing an integer in the POS column', a value above
\* UINT_MAX `Integer overflow in the POS column', another byte or the end
\* of the input behind the digits `Invalid data line format'; the buffer
\* size does not matter.
C10_PosParsing ==
    ParseLocReturned =>
        IF PosValue > UINT_MAX
        THEN /\ ev = error
             /\ sc.error_message = <<"Integer overflow in the POS column">>
        ELSE IF PosLen = 0
        THEN /\ ev = error
             /\ sc.error_message = <<"Missing an integer in the POS column">>
        ELSE IF PosTerminator # "\t"
        THEN /\ ev = error
             /\ sc.error_message = <<"Invalid data line format">>
        ELSE /\ ev = ok
             /\ sc.pos = PosValue

\* parse_loc has read POS = UINT_MAX from buffers of one byte.
C10_Witness ==
    /\ ParseLocReturned /\ chunk_size = 1
    /\ PosLen = 2 /\ PosValue = UINT_MAX /\ PosTerminator = "\t"
    /\ ev = ok /\ sc.pos = UINT_MAX

---------------------------------------------------------------------------
(* C4 and C6                                                               *)

FullLine == LineOf(BaseFields, 10)
HeaderNoSamples == FileformatLine \o HeaderLine(TRUE, <<>>)

\* Files whose records raise the errors of a data line: POS followed by
\* an LF, POS without digits, a line of one column; POS overflow, POS
\* followed by another byte, a line that ends after ID, POS at the end of
\* the input; an invalid GT, too many sub-values; too many genotype
\* fields, an empty GT; FORMAT without samples.
ErrorInputs ==
    { HeaderOneSample \o <<"1", "\t", "5">> \o LF \o FullLine \o LF
          \o <<"1", "\t">> \o LF \o <<"1">>,
      HeaderOneSample \o <<"1", "\t", "4", "0", "\t", "a">> \o LF
          \o <<"1", "\t", "5", "x", "\t", "a">> \o LF
          \o <<"1", "\t", "5", "\t", "a">> \o CRLF
          \o <<"1", "\t", "5">>,
      HeaderOneSample
          \o LineOf(With(BaseFields, 10, <<"0", "|", "x">>), 10) \o LF
          \o LineOf(With(BaseFields, 10, <<"0", "|", "1", ":", "5">>), 10)
          \o LF \o FullLine \o LF,
      HeaderOneSample
          \o FullLine \o <<"\t", "0", "|", "1">> \o LF
          \o LineOf(With(BaseFields, 10, <<>>), 10) \o LF
          \o FullLine,
      HeaderNoSamples \o LineOf(BaseFields, 9) \o LF
          \o LineOf(BaseFields, 8) \o LF }

SpecErrors == InitWith(ErrorInputs) /\ [][Next]_vars

\* A field operation invoked in order on a record has returned error.
FieldOpFailed == ev = error /\ FieldOpInvoked

\* The one-based number of the line of the record.
RecordLine == 1 + CountLF(input, RecordStart)

\* Offset of the first byte behind the record's line.
NextRecordStart ==
    LET e == LineEnd(RecordStart)
    IN  IF e > Len(input) THEN Len(input) ELSE e

\* C6: when a field operation returns error, get_line_number() is the
\* number of the line of the record it was invoked on.
C6_ErrorLine ==
    FieldOpFailed => get_line_number(sc) = RecordLine

\* C6, for the errors raised before the record's LF is read.
C6_ErrorLineInsideRecord ==
    (FieldOpFailed /\ Consumed(sc, fed) < LineEnd(RecordStart)) =>
        get_line_number(sc) = RecordLine

\* An error raised inside the record (POS overflow): the line number is
\* the record's.
C6_Witness ==
    /\ FieldOpFailed /\ op = "parse_loc"
    /\ sc.error_message = <<"Integer overflow in the POS column">>
    /\ get_line_number(sc) = RecordLine

\* The columns are those of a line with a CHROM, a POS of digits that fits
\* an unsigned, and a third column.
HasLoc(columns) ==
    /\ Len(columns) >= 3
    /\ Len(columns[2]) > 0
    /\ \A i \in 1..Len(columns[2]) : DigitOf(columns[2][i]) <= 9
    /\ DecimalValue(columns[2]) <= UINT_MAX

\* C4: when a field operation on the record of line n returns error,
\* clear_line driven to ok leaves state = parsing_chrom with the first
\* byte of line n + 1 the next to read: at_eof() holds if there is no such
\* byte, and otherwise parse_loc reads the CHROM and the POS of line n + 1
\* (when that line has them).
C4_Resync ==
    FieldOpFailed =>
        LET c    == Driven(clear_line(sc), fed)
            l    == Driven(parse_loc(c.s), c.fed)
            next == ColumnsOfLine(NextRecordStart)
        IN  /\ c.ev = ok
            /\ c.s.state = parsing_chrom
            /\ Consumed(c.s, c.fed) = NextRecordStart
            /\ NextRecordStart = Len(input) => at_eof(c.s)
            /\ (NextRecordStart < Len(input) /\ HasLoc(next)) =>
                   /\ l.ev = ok
                   /\ l.s.chrom = next[1]
                   /\ l.s.pos = DecimalValue(next[2])

\* C4, for the errors raised with state = end_of_data_line or before the
\* record's LF is read.
C4_ResyncUnlessPosAtLF ==
    (/\ FieldOpFailed
     /\ sc.state = end_of_data_line \/ Consumed(sc, fed) < LineEnd(RecordStart))
    =>  LET c == Driven(clear_line(sc), fed)
        IN  /\ c.ev = ok
            /\ c.s.state = parsing_chrom
            /\ Consumed(c.s, c.fed) = NextRecordStart
            /\ NextRecordStart = Len(input) => at_eof(c.s)

\* clear_line has returned ok after a GT error, the next record being the
\* next to read.
C4_Witness ==
    /\ op = "clear_line" /\ ev = ok
    /\ before.ev = error /\ before.op = "parse_genotype"
    /\ before.sc.error_message = <<"Invalid character in GT value">>
    /\ sc.state = parsing_chrom
    /\ Consumed(sc, fed) = LineStart(Consumed(sc, fed))

---------------------------------------------------------------------------
(* C7                                                                      *)

\* Files of records that end after 1 to 7 columns, at an LF, at a CR LF and
\* at the end of the input.
ShortInputs ==
    { HeaderOneSample \o LineOf(BaseFields, 1) \o LF
          \o LineOf(BaseFields, 2) \o LF \o LineOf(BaseFields, 3) \o LF
          \o FullLine,
      HeaderOneSample \o LineOf(BaseFields, 4) \o LF
          \o LineOf(BaseFields, 5) \o LF \o LineOf(BaseFields, 6),
      HeaderOneSample \o LineOf(BaseFields, 7) \o CRLF
          \o LineOf(BaseFields, 3) \o CRLF \o LineOf(BaseFields, 1),
      HeaderOneSample \o LineOf(BaseFields, 6) \o LF
          \o LineOf(BaseFields, 7) \o LF \o LineOf(BaseFields, 2),
      HeaderOneSample \o LineOf(BaseFields, 5) \o CRLF
          \o LineOf(BaseFields, 4) }

SpecShort == InitWith(ShortInputs) /\ [][Next]_vars

\* The last mandatory column the operation `name' reads.
LastColumn(name) ==
    CASE name = "parse_loc" -> 2
      [] name = "parse_ids" -> 3
      [] name = "parse_alleles" -> 5
      [] name = "parse_quality" -> 6
      [] name = "parse_filters" -> 7
      [] name = "parse_info" -> number_of_mandatory_columns
      [] name = "parse_genotype_format" -> number_of_mandatory_columns

ExpectedMissingField(column) ==
    <<"Missing mandatory VCF field \"">> \o Columns[column] \o <<"\"">>

\* A field operation other than parse_genotype, invoked in order on a
\* record, has returned.
ColumnOpReturned ==
    /\ FieldOpInvoked /\ op # "parse_genotype"
    /\ ev # need_more_data

\* The error that names the first column the record lacks.
MissingFieldReported ==
    /\ ev = error
    /\ sc.error_message = ExpectedMissingField(Len(RecordColumns) + 1)
    /\ sc.state = end_of_data_line

\* C7: when a record ends (LF or end of input) before the mandatory
\* column C, the first field operation that needs C, whether it parses or
\* skips the columns in front of C and whether or not buffers run out on the
\* way, returns error with the message Missing mandatory VCF field "C" and
\* leaves state = end_of_data_line.
C7_MissingField ==
    (ColumnOpReturned /\ Len(RecordColumns) < LastColumn(op))
    => MissingFieldReported

\* parse_filters, invoked after parse_loc, has come upon the end of a
\* record of four columns while skipping, the input coming one byte per
\* buffer.
C7_Witness ==
    /\ ColumnOpReturned /\ op = "parse_filters" /\ chunk_size = 1
    /\ before.op = "parse_loc" /\ before.ev = ok
    /\ Len(RecordColumns) = 4
    /\ MissingFieldReported

---------------------------------------------------------------------------
(* C2: the bare tokenizer and its driver (tests/vcf_tokenizer_test.cc)     *)

TokBytes == {"a", ";", "\t", "\n", "\r"}

TokClasses == {newline_or_tab, newline_or_tab_or_semicolon}

\* The byte streams of at most MaxTokStream bytes.
TokStreams ==
    UNION { [1..n -> TokBytes] : n \in 0..MaxTokStream }

\* The driver before the first buffer: `set' is the delimiter class, `fed'
\* the number of bytes installed, `cuts' the lengths of the chunks
\* installed, `out' the tokens extracted with their terminators.
TokDriverInit(set) ==
    [ on   |-> TRUE,
      set  |-> set,
      t    |-> TokenizerInit,
      fed  |-> 0,
      cuts |-> <<>>,
      need |-> TRUE,
      done |-> FALSE,
      out  |-> <<>> ]

InitTok ==
    /\ input \in TokStreams
    /\ \E set \in TokClasses : tz = TokDriverInit(set)
    /\ chunk_size = 0
    /\ fed = 0
    /\ sc = ScannerInit
    /\ ev = need_more_data
    /\ op = "tokenizer"
    /\ calls = 0
    /\ before = Snapshot(ScannerInit, need_more_data, "tokenizer", 0)
    /\ peer = NoPeer

\* Lengths the next chunk may have: any part of what is left, and the
\* zero-length chunk once the stream is exhausted.
ChunkLengths(left) == IF left = 0 THEN {0} ELSE 1..left

TokenOf(t) == [ token |-> t.token, terminator |-> t.terminator ]

\* tokenizer.set_new_buffer(part.data(), part.length())
TokFeed ==
    /\ tz.need /\ ~tz.done
    /\ \E n \in ChunkLengths(Len(input) - tz.fed) :
          tz' = [tz EXCEPT
                    !.t = set_new_buffer(@, SubSeq(input, tz.fed + 1,
                                                   tz.fed + n)),
                    !.fed = @ + n,
                    !.cuts = Append(@, n),
                    !.need = FALSE]
    /\ UNCHANGED <<input, chunk_size, fed, sc, ev, op, calls, before, peer>>

\* tokenizer.prepare_token_or_accumulate(tokenizer.find_char_from_set(set))
TokPrepare ==
    /\ ~tz.need /\ ~tz.done
    /\ LET r == prepare_token_or_accumulate(
                    tz.t, find_char_from_set(tz.t, tz.set))
       IN  tz' = [tz EXCEPT
                    !.t = r.t,
                    !.need = ~r.ret,
                    !.out = IF r.ret THEN Append(@, TokenOf(r.t)) ELSE @,
                    !.done = r.ret /\ r.t.terminator = EOF]
    /\ UNCHANGED <<input, chunk_size, fed, sc, ev, op, calls, before, peer>>

NextTok == TokFeed \/ TokPrepare

SpecTok == InitTok /\ [][NextTok]_vars

RECURSIVE OneChunkLoop(_, _, _)
\* The same driver with the stream installed as one chunk.
OneChunkLoop(t, set, out) ==
    LET r == prepare_token_or_accumulate(t, find_char_from_set(t, set))
    IN  IF ~r.ret THEN OneChunkLoop(set_new_buffer(r.t, <<>>), set, out)
        ELSE IF r.t.terminator = EOF THEN Append(out, TokenOf(r.t))
        ELSE OneChunkLoop(r.t, set, Append(out, TokenOf(r.t)))

OneChunk(stream, set) ==
    OneChunkLoop(set_new_buffer(TokenizerInit, stream), set, <<>>)

\* C2: whatever the partition of the stream into chunks, the tokens and
\* terminators extracted so far are the first ones of the one-chunk run,
\* and all of them once the token ended by the end of input is extracted;
\* so a CR in front of an LF is stripped also across a seam.
C2_Seams ==
    LET whole == OneChunk(input, tz.set)
    IN  /\ Len(tz.out) <= Len(whole)
        /\ tz.out = SubSeq(whole, 1, Len(tz.out))
        /\ tz.done => tz.out = whole

\* The stream a CR LF ; in the chunks a CR | LF | ; has given the tokens
\* a and ; under the class of newline and tab.
C2_Witness ==
    /\ input = <<"a", "\r", "\n", ";">>
    /\ tz.set = newline_or_tab
    /\ tz.cuts = <<2, 1, 1, 0>>
    /\ tz.done
    /\ tz.out = << [token |-> <<"a">>, terminator |-> "\n"],
                   [token |-> <<";">>, terminator |-> EOF] >>

---------------------------------------------------------------------------
(* Two runs under the same calls: this one, and the peer with its own      *)
(* input and buffer size.                                                  *)
(* C1: the same input, the peer fed the whole input as one buffer          *)
(* (run_test_case_with_all_buffer_sizes).                                  *)

\* A read outside genotype_values ends the run here: what the program does
\* after it is not followed.
Fault == [ flag |-> FALSE, data_type |-> MemoryFault ]

\* The peer before its first buffer.
PeerInit(data, size) ==
    [ on    |-> TRUE,
      input |-> data,
      size  |-> size,
      sc    |-> ScannerInit,
      ev    |-> need_more_data,
      fed   |-> 0 ]

\* The peer after its caller has fed it the next buffer.
PeerFed ==
    LET chunk == NextChunk(peer.input, peer.fed, peer.size)
        r     == feed(peer.sc, chunk, Fault)
    IN  [peer EXCEPT !.sc = r.s, !.ev = r.ev, !.fed = @ + Len(chunk)]

PairFields ==
    << <<"1">>, <<"5">>, <<"a", ";", "b">>, <<"C">>, <<"G", ",", "T">>,
       <<"9">>, <<"P", ";", "q">>, <<"K", ";", "L">>, <<"G", "T", ":", "X">>,
       <<"0", "|", "1", ":", "7">> >>

PairInputs ==
    { HeaderOneSample \o LineOf(PairFields, 10) \o LF \o FullLine \o LF,
      HeaderOneSample \o LineOf(BaseFields, 2) \o LF \o FullLine,
      HeaderOneSample \o LineOf(BaseFields, 3) \o CRLF \o FullLine \o CRLF,
      HeaderNoGenotypes
          \o LineOf(With(BaseFields, 2, <<"6", "4">>), 8) \o LF
          \o LineOf(BaseFields, 8) \o LF }

InitPair ==
    /\ input \in PairInputs
    /\ chunk_size \in 1..MaxChunk
    /\ fed = 0
    /\ sc = ScannerInit
    /\ ev = need_more_data
    /\ op = "header"
    /\ calls = 0
    /\ before = Snapshot(ScannerInit, need_more_data, "header", 0)
    /\ peer = PeerInit(input, Len(input))
    /\ tz = NoTokenizer

\* Each caller answers need_more_data with its next buffer.
PairFeed ==
    /\ ev = need_more_data \/ peer.ev = need_more_data
    /\ LET chunk == NextChunk(input, fed, chunk_size)
           r     == feed(sc, chunk, Fault)
       IN  IF ev = need_more_data
           THEN /\ sc' = r.s
                /\ ev' = r.ev
                /\ fed' = fed + Len(chunk)
           ELSE UNCHANGED <<sc, ev, fed>>
    /\ peer' = IF peer.ev = need_more_data THEN PeerFed ELSE peer
    /\ UNCHANGED <<input, chunk_size, op, calls, before, tz>>

\* The same operation invoked in both runs: r is its result in this run, q
\* its result in the peer.
PairCall(name, r, q) ==
    /\ peer.ev \notin {need_more_data, terminated}
    /\ sc' = r.s
    /\ ev' = r.ev
    /\ op' = name
    /\ calls' = calls + 1
    /\ before' = Snapshot(sc, ev, op, fed)
    /\ peer' = [peer EXCEPT !.sc = q.s, !.ev = q.ev]
    /\ UNCHANGED <<input, chunk_size, fed, tz>>

PairParseLoc ==
    Idle /\ PairCall("parse_loc", parse_loc(sc), parse_loc(peer.sc))
PairParseIds ==
    Idle /\ PairCall("parse_ids", parse_ids(sc), parse_ids(peer.sc))
PairParseAlleles ==
    Idle /\ PairCall("parse_alleles", parse_alleles(sc),
                     parse_alleles(peer.sc))
PairParseQuality ==
    Idle /\ PairCall("parse_quality", parse_quality(sc),
                     parse_quality(peer.sc))
PairParseFilters ==
    Idle /\ PairCall("parse_filters", parse_filters(sc),
                     parse_filters(peer.sc))
PairParseInfo ==
    Idle /\ PairCall("parse_info", parse_info(sc), parse_info(peer.sc))
PairParseGenotypeFormat ==
    Idle /\ PairCall("parse_genotype_format", parse_genotype_format(sc),
                     parse_genotype_format(peer.sc))
\* capture_gt once parse_genotype_format has written the key positions.
PairCaptureGt ==
    /\ Idle
    /\ sc.key_positions_written /\ peer.sc.key_positions_written
    /\ PairCall("capture_gt", R(capture_gt(sc, 0).s, ok),
                R(capture_gt(peer.sc, 0).s, ok))
PairParseGenotype ==
    Idle /\ PairCall("parse_genotype", parse_genotype(sc, Fault),
                     parse_genotype(peer.sc, Fault))
PairClearLine ==
    Idle /\ PairCall("clear_line", clear_line(sc), clear_line(peer.sc))

NextPair ==
    \/ PairFeed
    \/ PairParseLoc
    \/ PairParseIds
    \/ PairParseAlleles
    \/ PairParseQuality
    \/ PairParseFilters
    \/ PairParseInfo
    \/ PairParseGenotypeFormat
    \/ PairCaptureGt
    \/ PairParseGenotype
    \/ PairClearLine

SpecPair == InitPair /\ [][NextPair]_vars

\* What the operation `name' hands to its caller when it succeeds.
FieldsOf(name, s) ==
    CASE name = "header" -> <<s.header>>
      [] name = "parse_loc" -> <<s.chrom, s.pos>>
      [] name = "parse_ids" -> <<s.ids>>
      [] name = "parse_alleles" -> <<s.ref, s.alts>>
      [] name = "parse_quality" -> <<s.quality>>
      [] name = "parse_filters" -> <<s.filters>>
      [] name = "parse_info" -> <<s.info>>
      [] name = "parse_genotype_format" -> <<s.warnings>>
      [] name = "parse_genotype" -> <<s.gt, s.phased_gt>>
      [] OTHER -> <<>>

\* The operation invoked last has returned in both runs.
BothReturned == ev # need_more_data /\ peer.ev # need_more_data

---------------------------------------------------------------------------
(* C3: the peer reads the input with a CR in front of every LF             *)
(* (run_test_case_with_and_without_cr).                                    *)

\* vcf_with_crs: a CR inserted in front of every LF.  Byte i of data
\* moves to position i + CountLF(data, i), and the position in front of a
\* moved LF takes the CR.
WithCRs(data) ==
    LET to(i) == i + CountLF(data, i)
    IN  [ j \in 1..to(Len(data)) |->
            IF \E i \in 1..Len(data) : to(i) = j
            THEN data[CHOOSE i \in 1..Len(data) : to(i) = j]
            ELSE "\r" ]

CRInputs ==
    { HeaderOneSample \o LineOf(PairFields, 10) \o LF \o FullLine \o LF,
      HeaderOneSample \o LineOf(BaseFields, 2) \o LF \o FullLine,
      HeaderOneSample \o LineOf(BaseFields, 3) \o LF
          \o LineOf(BaseFields, 8) \o LF \o FullLine \o LF,
      HeaderNoGenotypes
          \o LineOf(With(BaseFields, 2, <<"6", "4">>), 8) \o LF
          \o LineOf(BaseFields, 8) \o LF }

\* Both runs are fed buffers of the same size: 1..MaxChunk bytes, or the
\* whole of their input.
InitCR ==
    /\ input \in CRInputs
    /\ chunk_size \in (1..MaxChunk) \cup {2 * Len(input)}
    /\ fed = 0
    /\ sc = ScannerInit
    /\ ev = need_more_data
    /\ op = "header"
    /\ calls = 0
    /\ before = Snapshot(ScannerInit, need_more_data, "header", 0)
    /\ peer = PeerInit(WithCRs(input), chunk_size)
    /\ tz = NoTokenizer

SpecCR == InitCR /\ [][NextPair]_vars

\* C3: whenever an operation has returned, the event, the error message of
\* an error, the line number and the fields of a successful operation are
\* those of the run that reads the input with a CR in front of every LF.
C3_CRTransparent ==
    BothReturned =>
        /\ ev = peer.ev
        /\ ev # terminated =>
              /\ get_line_number(sc) = get_line_number(peer.sc)
              /\ ev = error => sc.error_message = peer.sc.error_message
              /\ ev \in {ok, ok_with_warnings} =>
                     FieldsOf(op, sc) = FieldsOf(op, peer.sc)

\* Some line of the input ends at an LF right after its second column.
PosAtLF ==
    \E i \in 1..Len(input) :
        /\ input[i] = "\n"
        /\ Len(ColumnsOfLine(LineStart(i - 1))) = 2

\* C3, for the inputs in which no line ends at an LF right after the POS
\* column.
C3_CRTransparentUnlessPosAtLF ==
    (BothReturned /\ ~PosAtLF) =>
        /\ ev = peer.ev
        /\ ev # terminated =>
              /\ get_line_number(sc) = get_line_number(peer.sc)
              /\ ev = error => sc.error_message = peer.sc.error_message
              /\ ev \in {ok, ok_with_warnings} =>
                     FieldsOf(op, sc) = FieldsOf(op, peer.sc)

\* Both runs, fed one byte per buffer, have reported the missing REF of a
\* record of three columns and have then cleared the line.
C3_Witness ==
    /\ BothReturned /\ ~PosAtLF /\ chunk_size = 1
    /\ op = "clear_line" /\ ev = ok /\ peer.ev = ok
    /\ before.op = "parse_alleles" /\ before.ev = error
    /\ sc.error_message = ExpectedMissingField(4)
    /\ fed < peer.fed

----------------------------------------------------------------------------
(* The state an operation leaves behind when it returns ok.                *)

\* Files of two records each: with one and with two samples, without
\* genotype columns, and with a FORMAT column but no sample.
StateInputs ==
    { HeaderOneSample \o FullLine \o LF \o FullLine \o LF,
      FileformatLine \o HeaderLine(TRUE, << <<"S">>, <<"T">> >>)
          \o LineOf(BaseFields \o << <<"1", "/", "1">> >>, 11) \o LF
          \o LineOf(BaseFields \o << <<"0">> >>, 11),
      HeaderNoGenotypes \o LineOf(BaseFields, 8) \o LF
          \o LineOf(BaseFields, 8) \o CRLF,
      HeaderNoSamples \o LineOf(BaseFields, 9) \o LF
          \o LineOf(BaseFields, 9) }

SpecStates == InitWith(StateInputs) /\ [][Next]_vars

\* The states of the State enum that follow the column(s) `name' reads.
StatesAfter(name) ==
    CASE name = "parse_loc" -> {parsing_id}
      [] name = "parse_ids" -> {parsing_ref}
      [] name = "parse_alleles" -> {parsing_quality}
      [] name = "parse_quality" -> {parsing_filter}
      [] name = "parse_filters" -> {parsing_info_field}
      [] name = "parse_info" -> {parsing_genotype_format, end_of_data_line}
      [] name = "parse_genotype_format" ->
             {parsing_genotypes, end_of_data_line}
      [] name = "parse_genotype" ->
             IF sc.tokenizer.terminator = "\t"
             THEN {parsing_genotypes} ELSE {end_of_data_line}
      [] name = "clear_line" -> {parsing_chrom}
      [] OTHER -> {}

\* C11: whenever a field operation or clear_line, or the feed that resumes
\* it, returns ok (with or without warnings), the state is the one after
\* the columns the operation reads: parse_loc -> parsing_id, parse_ids ->
\* parsing_ref, parse_alleles -> parsing_quality, parse_quality ->
\* parsing_filter, parse_filters -> parsing_info_field, parse_info and
\* parse_genotype_format -> the next column or end_of_data_line,
\* parse_genotype -> parsing_genotypes after a tab and end_of_data_line
\* otherwise, clear_line -> parsing_chrom.
C11_PostState ==
    (ev \in {ok, ok_with_warnings} /\ op \in FieldOps \cup {"clear_line"})
    => sc.state \in StatesAfter(op)

\* Fed one-byte buffers, parse_alleles had read REF and ALT, and
\* parse_genotype, resumed by a feed, returned ok at the tab between the
\* genotype fields of two samples.
C11_Witness ==
    /\ chunk_size = 1
    /\ ev = ok
    /\ op = "parse_genotype"
    /\ sc.state = parsing_genotypes
    /\ sc.tokenizer.terminator = "\t"
    /\ fed > before.fed
    /\ sc.alleles_parsed

----------------------------------------------------------------------------
(* The end of the input                                                    *)

WithoutLastByte(data) == SubSeq(data, 1, Len(data) - 1)

\* Files that end with the header line, with one record and with two,
\* the last line with and without its newline.
EofInputs ==
    { HeaderOneSample,
      WithoutLastByte(HeaderOneSample),
      HeaderOneSample \o FullLine,
      HeaderOneSample \o FullLine \o LF,
      HeaderOneSample \o FullLine \o CRLF,
      HeaderOneSample \o FullLine \o LF \o LineOf(BaseFields, 8),
      HeaderOneSample \o LineOf(BaseFields, 3) \o LF \o FullLine \o LF }

SpecEof == InitWith(EofInputs) /\ [][Next]_vars

\* The header or clear_line, or the feed that resumes it, has returned ok.
LineBoundaryReached ==
    /\ ev = ok
    /\ op \in {"header", "clear_line"}

\* C12: whenever header parsing or clear_line (with the feeds that resume
\* them) returns ok, exactly one of these holds: at_eof() is true, or the
\* buffer still holds an unread byte; and at_eof() is true exactly when
\* no byte of the input is left unread, for every chunking and with or
\* without a newline at the end of the input.
C12_EofDetection ==
    LineBoundaryReached =>
        /\ at_eof(sc) # ~buffer_is_empty(sc.tokenizer)
        /\ at_eof(sc) <=> (Consumed(sc, fed) = Len(input))

\* clear_line, called behind the last record of a file that ends with a
\* newline, asked for more data, was fed the zero-length buffer and
\* returned ok at the end of the file.
C12_Witness ==
    /\ ev = ok
    /\ op = "clear_line"
    /\ at_eof(sc)
    /\ input[Len(input)] = "\n"
    /\ before.sc.state \in parsing_id..end_of_data_line
    /\ ~at_eof(before.sc)

----------------------------------------------------------------------------
(* clear_line inside a record                                              *)

\* The header, a field operation or clear_line has returned ok and the
\* scanner stands in a record (or in front of one).
InRecord ==
    /\ ev \in {ok, ok_with_warnings}
    /\ op \in FieldOps \cup {"header", "clear_line"}
    /\ sc.state \in parsing_chrom..end_of_data_line

\* Offset of the first byte behind the line the scanner stands in: the
\* line is read to its end in state end_of_data_line.
LineRemainderEnd ==
    LET p == Consumed(sc, fed)
        e == LineEnd(LineStart(p))
    IN  IF sc.state = end_of_data_line \/ p = Len(input) THEN p
        ELSE IF e > Len(input) THEN Len(input) ELSE e

\* C13: after a field operation on line n has returned ok, in any state
\* from parsing_chrom to end_of_data_line, clear_line driven to ok sets
\* state to parsing_chrom, clears alleles_parsed and discards exactly the
\* unread remainder of line n, so that the next parse_loc reads CHROM and
\* POS of line n + 1.
C13_ClearLine ==
    InRecord =>
        LET c    == Driven(clear_line(sc), fed)
            l    == Driven(parse_loc(c.s), c.fed)
            next == ColumnsOfLine(LineRemainderEnd)
        IN  /\ c.ev = ok
            /\ c.s.state = parsing_chrom
            /\ ~c.s.alleles_parsed
            /\ Consumed(c.s, c.fed) = LineRemainderEnd
            /\ (LineRemainderEnd < Len(input) /\ HasLoc(next)) =>
                   /\ l.ev = ok
                   /\ l.s.chrom = next[1]
                   /\ l.s.pos = DecimalValue(next[2])

\* clear_line, called after parse_alleles had returned ok with the rest of
\* the first record unread, was resumed by feeds and returned ok in front
\* of the second record.
C13_Witness ==
    /\ InRecord
    /\ op = "clear_line"
    /\ before.op = "parse_alleles" /\ before.ev = ok
    /\ before.sc.state = parsing_quality
    /\ before.sc.alleles_parsed /\ ~sc.alleles_parsed
    /\ fed > before.fed
    /\ Consumed(sc, fed) < Len(input)
    /\ Consumed(sc, fed) = LineStart(Consumed(sc, fed))
    /\ HasLoc(ColumnsOfLine(Consumed(sc, fed)))

----------------------------------------------------------------------------
(* Progress                                                                *)

\* The caller's loop (Test_reader::read_and_feed) answers need_more_data
\* with a feed: weak fairness of Feed, written out.  Feed is enabled, and
\* changes the state, exactly when ev = need_more_data, and no other action
\* is enabled then.
FeedFairness ==
    <>[](ev = need_more_data) => []<><<ev = need_more_data>>_vars

SpecProgress == InitWith(EofInputs) /\ [][Next]_vars /\ FeedFairness

\* The events with which a call is over: ok, error, or the call that does
\* not return (an out-of-bounds read of genotype_values).
CallOver == {ok, ok_with_warnings, error, terminated}

----------------------------------------------------------------------------
(* The header                                                              *)

\* First lines other than `##fileformat=V': a value with an `=' in it,
\* an empty value, no `=', other keys, an empty line.
FirstLines ==
    { <<
        "#", "#", "f", "i", "l", "e", "f", "o", "r", "m", "a", "t", "=",
        "V", "=", "4", "\r", "\n" >>,
      <<
        "#", "#", "f", "i", "l", "e", "f", "o", "r", "m", "a", "t", "=",
        "\n" >>,
      <<
        "#", "#", "f", "i", "l", "e", "f", "o", "r", "m", "a", "t", "\n" >>,
      <<
        "#", "#", "f", "i", "l", "e", "f", "o", "r", "m", "a", "T", "=",
        "V", "\n" >>,
      <<
        "#", "f", "i", "l", "e", "f", "o", "r", "m", "a", "t", "=", "V",
        "\n" >>,
      <<"\n">>,
      <<"=", "V", "\n">> }

\* Files that end in or right behind their first line.
ShortFiles ==
    { <<
        "#", "#", "f", "i", "l", "e", "f", "o", "r", "m", "a", "t", "=",
        "V" >>,
      <<"#", "#", "f", "i", "l", "e">>,
      <<
        "#", "#", "f", "i", "l", "e", "f", "o", "r", "m", "a", "t", "=",
        "V", "\n" >> }

\* Lines between the first line and the header line: well-formed ones
\* (a key twice, an empty value, a value with `=' and a tab in it, CR LF),
\* keys without `##', an empty key, lines without `=' and empty lines.
MetaLines ==
    { <<
        "#", "#", "K", "=", "v", "\n", "#", "#", "L", "=", "\r", "\n", "#",
        "#", "K", "=", "w", "\n" >>,
      <<"#", "#", "K", "=", "v", "=", "x", "\t", "y", "\r", "\n">>,
      <<"#", "K", "=", "v", "\n">>,
      <<"#", "#", "=", "v", "\n">>,
      <<"K", "=", "v", "\n">>,
      <<"#", "#", "K", "\n">>,
      <<"\n">>,
      <<"#", "#", "K", "=", "v", "\n", "\n">> }

\* The same, the file ending in or right behind them.
MetaLinesAtEof ==
    { <<"#", "#", "K">>,
      <<"#", "#", "K", "=", "v">>,
      <<"#", "#", "K", "=">>,
      <<"#", "#", "K", "=", "v", "\r">>,
      <<"#", "#", "K", "=", "v", "\n">>,
      <<"#", "#", "K", "=", "v", "\n", "#", "#", "L", "=", "w">> }

\* Lines whose first token ends with a tab, or that read #CHROM and end.
HeaderLineStarts ==
    { <<
        "X", "C", "H", "R", "O", "M", "\t", "P", "O", "S", "\t", "I", "D",
        "\t", "R", "E", "F", "\t", "A", "L", "T", "\t", "Q", "U", "A", "L",
        "\t", "F", "I", "L", "T", "E", "R", "\t", "I", "N", "F", "O", "\n" >>,
      <<"C", "H", "R", "O", "M", "\t", "P", "O", "S", "\n">>,
      <<"1", "\t", "5", "\t", "a", "\n">>,
      <<"\t", "P", "O", "S", "\n">>,
      <<"#", "#", "C", "H", "R", "O", "M", "\t", "P", "O", "S", "\n">>,
      <<"#", "C", "H", "R", "O", "M", "\n">>,
      <<"#", "C", "H", "R", "O", "\t", "P", "O", "S", "\n">>,
      <<"#", "\t", "C", "H", "R", "O", "M", "\n">> }

\* Header lines: the eight columns, FORMAT, samples (none, one, two, an
\* empty one); a wrong ninth column; too few columns; misspelt, swapped
\* and empty columns; ended by LF, CR LF and the end of the file.
HeaderLines ==
    { <<
        "#", "C", "H", "R", "O", "M", "\t", "P", "O", "S", "\t", "I", "D",
        "\t", "R", "E", "F", "\t", "A", "L", "T", "\t", "Q", "U", "A", "L",
        "\t", "F", "I", "L", "T", "E", "R", "\t", "I", "N", "F", "O", "\r",
        "\n" >>,
      <<
        "#", "C", "H", "R", "O", "M", "\t", "P", "O", "S", "\t", "I", "D",
        "\t", "R", "E", "F", "\t", "A", "L", "T", "\t", "Q", "U", "A", "L",
        "\t", "F", "I", "L", "T", "E", "R", "\t", "I", "N", "F", "O" >>,
      <<
        "#", "C", "H", "R", "O", "M", "\t", "P", "O", "S", "\t", "I", "D",
        "\t", "R", "E", "F", "\t", "A", "L", "T", "\t", "Q", "U", "A", "L",
        "\t", "F", "I", "L", "T", "E", "R", "\t", "I", "N", "F", "O", "\t",
        "F", "O", "R", "M", "A", "T", "\n" >>,
      <<
        "#", "C", "H", "R", "O", "M", "\t", "P", "O", "S", "\t", "I", "D",
        "\t", "R", "E", "F", "\t", "A", "L", "T", "\t", "Q", "U", "A", "L",
        "\t", "F", "I", "L", "T", "E", "R", "\t", "I", "N", "F", "O", "\t",
        "F", "O", "R", "M", "A", "T" >>,
      <<
        "#", "C", "H", "R", "O", "M", "\t", "P", "O", "S", "\t", "I", "D",
        "\t", "R", "E", "F", "\t", "A", "L", "T", "\t", "Q", "U", "A", "L",
        "\t", "F", "I", "L", "T", "E", "R", "\t", "I", "N", "F", "O", "\t",
        "F", "O", "R", "M", "A", "T", "\t", "S", "\t", "T", "\r", "\n" >>,
      <<
        "#", "C", "H", "R", "O", "M", "\t", "P", "O", "S", "\t", "I", "D",
        "\t", "R", "E", "F", "\t", "A", "L", "T", "\t", "Q", "U", "A", "L",
        "\t", "F", "I", "L", "T", "E", "R", "\t", "I", "N", "F", "O", "\t",
        "F", "O", "R", "M", "A", "T", "\t", "S" >>,
      <<
        "#", "C", "H", "R", "O", "M", "\t", "P", "O", "S", "\t", "I", "D",
        "\t", "R", "E", "F", "\t", "A", "L", "T", "\t", "Q", "U", "A", "L",
        "\t", "F", "I", "L", "T", "E", "R", "\t", "I", "N", "F", "O", "\t",
        "F", "O", "R", "M", "A", "T", "\t", "\n" >>,
      <<
        "#", "C", "H", "R", "O", "M", "\t", "P", "O", "S", "\t", "I", "D",
        "\t", "R", "E", "F", "\t", "A", "L", "T", "\t", "Q", "U", "A", "L",
        "\t", "F", "I", "L", "T", "E", "R", "\t", "I", "N", "F", "O", "\t",
        "\n" >>,
      <<
        "#", "C", "H", "R", "O", "M", "\t", "P", "O", "S", "\t", "I", "D",
        "\t", "R", "E", "F", "\t", "A", "L", "T", "\t", "Q", "U", "A", "L",
        "\t", "F", "I", "L", "T", "E", "R", "\t", "I", "N", "F", "O", "\t",
        "F", "O", "R", "M", "A", "\t", "S", "\n" >>,
      <<
        "#", "C", "H", "R", "O", "M", "\t", "P", "O", "S", "\t", "I", "D",
        "\t", "R", "E", "F", "\t", "A", "L", "T", "\t", "Q", "U", "A", "L",
        "\t", "F", "I", "L", "T", "E", "R", "\t", "I", "N", "F", "O", "\t",
        "S", "\n" >>,
      <<
        "#", "C", "H", "R", "O", "M", "\t", "P", "O", "S", "\t", "I", "D",
        "\n" >>,
      <<
        "#", "C", "H", "R", "O", "M", "\t", "P", "O", "S", "\t", "I", "D" >>,
      <<
        "#", "C", "H", "R", "O", "M", "\t", "P", "O", "S", "\t", "I", "D",
        "\t", "R", "E", "F", "\t", "A", "L", "T", "\t", "Q", "U", "A", "L",
        "\t", "F", "I", "L", "T", "E", "R", "\n" >>,
      <<
        "#", "C", "H", "R", "O", "M", "\t", "P", "O", "S", "\t", "I", "D",
        "\t", "R", "E", "F", "\t", "A", "L", "T", "\t", "Q", "U", "A", "L",
        "\t", "F", "I", "L", "T", "E", "R", "\t", "I", "N", "F", "\n" >>,
      <<
        "#", "C", "H", "R", "O", "M", "\t", "I", "D", "\t", "P", "O", "S",
        "\t", "R", "E", "F", "\t", "A", "L", "T", "\t", "Q", "U", "A", "L",
        "\t", "F", "I", "L", "T", "E", "R", "\t", "I", "N", "F", "O", "\n" >>,
      <<
        "#", "C", "H", "R", "O", "M", "\t", "P", "O", "S", "\t", "I", "D",
        "\t", "R", "E", "F", "\t", "A", "L", "T", "\t", "Q", "U", "A", "L",
        "\t", "F", "I", "L", "T", "E", "R", "\t", "i", "n", "f", "o", "\n" >>,
      <<
        "#", "C", "H", "R", "O", "M", "\t", "P", "O", "S", "\t", "I", "D",
        "\t", "R", "E", "F", "\t", "A", "L", "T", "\t", "Q", "U", "A", "L",
        "\t", "F", "I", "L", "T", "E", "R", "\t", "I", "N", "F", "O", " ",
        "\n" >>,
      <<
        "#", "C", "H", "R", "O", "M", "\t", "P", "O", "S", "\t", "\t", "I",
        "D", "\n" >> }

\* The files of the header checks; a record follows the header where the
\* header line is ended by a newline.
HeaderInputs ==
    { l \o HeaderLine(FALSE, <<>>) \o LineOf(BaseFields, 8) \o LF
        : l \in FirstLines }
    \cup ShortFiles
    \cup { FileformatLine \o m \o HeaderLine(TRUE, << <<"S">> >>) \o FullLine
             : m \in MetaLines }
    \cup { FileformatLine \o m : m \in MetaLinesAtEof }
    \cup { FileformatLine \o h \o LineOf(BaseFields, 8)
             : h \in HeaderLineStarts }
    \cup { FileformatLine \o h \o
               (IF h[Len(h)] = "\n" THEN LineOf(BaseFields, 10) \o LF ELSE <<>>)
             : h \in HeaderLines }

SpecHeader == InitWith(HeaderInputs) /\ [][Next]_vars

\* The header is being parsed, or its parsing has just returned: no
\* operation has been called yet.
InHeader == calls = 0

\* The feeds so far have handed over the whole line that starts at offset
\* a: its LF, or the zero-length buffer behind a line that has none.
LineFed(a) ==
    IF LineEnd(a) <= Len(input) THEN fed >= LineEnd(a)
    ELSE fed = Len(input) /\ at_eof(sc)

\* Index of the first `=' of the first line, 0 when it has none.
FirstLineEquals == FindInToken(LineText(0), "=")

\* The first line, up to its first `=', reads ##fileformat.
FirstLineOk ==
    /\ FirstLineEquals > 0
    /\ SubSeq(LineText(0), 1, FirstLineEquals - 1) = FileformatKey

\* C15: header parsing proceeds past the first line only if that line, up
\* to its first `=', is exactly ##fileformat, and file_format_version is
\* then the text behind that `='; for any other first line the feed that
\* completes the line returns error with the message
\* VCF files must start with '##fileformat'.
C15_FirstLine ==
    InHeader =>
        /\ sc.state # parsing_fileformat =>
               /\ FirstLineOk
               /\ sc.header.file_format_version =
                      SubSeq(LineText(0), FirstLineEquals + 1,
                             Len(LineText(0)))
        /\ (LineFed(0) /\ ~FirstLineOk) =>
               /\ ev = error
               /\ sc.state = parsing_fileformat
               /\ sc.error_message =
                      <<"VCF files must start with '##fileformat'">>
        /\ (LineFed(0) /\ FirstLineOk) => sc.state # parsing_fileformat
        /\ ~LineFed(0) => ev = need_more_data /\ sc.state = parsing_fileformat

\* The first line ##fileformaT=V, fed in one-byte buffers, was refused by
\* the feed that handed over its LF.
C15_Witness ==
    /\ InHeader
    /\ chunk_size = 1
    /\ ev = error
    /\ FirstLineEquals > 0 /\ ~FirstLineOk
    /\ fed = LineEnd(0)
    /\ sc.error_message = <<"VCF files must start with '##fileformat'">>

\* The offsets at which a line starts: 0 and the offset behind each LF
\* (the last of them starts an empty line when the input ends with an LF).
AllLineStarts == {0} \cup { i \in 1..Len(input) : input[i] = "\n" }

\* Index of the first tab or `=' of the line starting at a, 0 for none.
FirstSeparator(a) ==
    LET text == LineText(a)
    IN  IF \E i \in 1..Len(text) : text[i] \in {"\t", "="}
        THEN CHOOSE i \in 1..Len(text) :
                /\ text[i] \in {"\t", "="}
                /\ \A j \in 1..(i - 1) : text[j] \notin {"\t", "="}
        ELSE 0

\* The first token of the line starting at a, and the byte that ends it.
FirstToken(a) ==
    IF FirstSeparator(a) = 0 THEN LineText(a)
    ELSE SubSeq(LineText(a), 1, FirstSeparator(a) - 1)

FirstTerminator(a) ==
    IF FirstSeparator(a) = 0 THEN "\n" ELSE LineText(a)[FirstSeparator(a)]

\* The line starting at a reads ##KEY=VALUE with a KEY of at least one
\* byte, and an LF ends it.
IsMetaLine(a) ==
    /\ FirstTerminator(a) = "="
    /\ Len(FirstToken(a)) >= 3
    /\ FirstToken(a)[1] = "#" /\ FirstToken(a)[2] = "#"
    /\ LineEnd(a) <= Len(input)

\* The first line behind the first one that is not such a line: the header
\* line of a well-formed file.
HasStopLine == AllLineStarts # {0}

StopLine ==
    CHOOSE b \in AllLineStarts \ {0} :
        /\ ~IsMetaLine(b)
        /\ \A c \in AllLineStarts : (0 < c /\ c < b) => IsMetaLine(c)

\* The line behind the meta-information lines starts with a token that a
\* tab ends and that reads CHROM behind its first byte.
HeaderLineStarted ==
    /\ FirstLineOk
    /\ HasStopLine
    /\ FirstTerminator(StopLine) = "\t"
    /\ Len(FirstToken(StopLine)) > 0
    /\ Tail(FirstToken(StopLine)) = Columns[1]

\* The columns of that line are CHROM to INFO in this order, FORMAT being
\* the ninth if there is one.
HeaderColumnsOk ==
    LET cols == ColumnsOfLine(StopLine)
    IN  /\ Len(cols) >= number_of_mandatory_columns
        /\ \A i \in 2..number_of_mandatory_columns : cols[i] = Columns[i]
        /\ Len(cols) > number_of_mandatory_columns =>
               cols[number_of_mandatory_columns + 1]
                   = Columns[number_of_mandatory_columns + 1]

\* C16: header parsing returns ok if and only if the header line lists
\* CHROM to INFO in exactly that order; has_genotype_info() is false with
\* exactly 8 columns and true when a ninth column FORMAT follows; the
\* tab-separated tokens behind FORMAT are get_sample_ids() in input order
\* (possibly none); a wrong column name, or a line that ends before all 8
\* mandatory columns, gives error with the message Malformed VCF header
\* line.
C16_HeaderLine ==
    (InHeader /\ HeaderLineStarted) =>
        LET cols == ColumnsOfLine(StopLine)
        IN  /\ ev = ok <=> (HeaderColumnsOk /\ ev # need_more_data)
            /\ ev = ok =>
                   /\ sc.header.genotype_info_present
                          = (Len(cols) > number_of_mandatory_columns)
                   /\ sc.header.sample_ids
                          = SubSeq(cols, number_of_mandatory_columns + 2,
                                   Len(cols))
                   /\ sc.state = parsing_chrom
            /\ (~HeaderColumnsOk /\ LineFed(StopLine)) =>
                   /\ ev = error
                   /\ sc.error_message = <<"Malformed VCF header line">>

\* The header line with FORMAT and the samples S and T, ended by CR LF and
\* fed in one-byte buffers, was accepted.
C16_Witness ==
    /\ InHeader /\ HeaderLineStarted
    /\ chunk_size = 1
    /\ ev = ok
    /\ sc.header.genotype_info_present
    /\ sc.header.sample_ids = << <<"S">>, <<"T">> >>

\* The meta-information lines whose LF has been read, as offsets.
MetaLinesRead ==
    IF FirstLineOk /\ HasStopLine
    THEN { b \in AllLineStarts \ {0} :
             b < StopLine /\ LineEnd(b) <= Consumed(sc, fed) }
    ELSE {}

MetaKeyOf(b) == SubSeq(FirstToken(b), 3, Len(FirstToken(b)))

MetaValueOf(b) ==
    SubSeq(LineText(b), FirstSeparator(b) + 1, Len(LineText(b)))

\* The values of the lines of `lines', in the order of the input.
RECURSIVE MetaValues(_)
MetaValues(lines) ==
    IF lines = {} THEN <<>>
    ELSE LET b == CHOOSE x \in lines : \A y \in lines : x <= y
         IN  <<MetaValueOf(b)>> \o MetaValues(lines \ {b})

\* The first token of the line behind the meta-information lines is ended
\* by an `=' but is not ## and a key, or the line has neither `=' nor tab.
MetaLineMalformed ==
    IF ~HasStopLine THEN TRUE
    ELSE \/ FirstSeparator(StopLine) = 0
         \/ /\ FirstTerminator(StopLine) = "="
            /\ \/ Len(FirstToken(StopLine)) < 3
               \/ FirstToken(StopLine)[1] # "#"
               \/ FirstToken(StopLine)[2] # "#"

\* C17: for every line ##KEY=VALUE of the header that an LF ends, KEY not
\* empty, VALUE (without the CR of a CR LF) is appended to
\* get_meta_info()[KEY], the values of one KEY in the order of the input; a
\* token ended by `=' that is not ## followed by at least one byte gives
\* error with the message Malformed meta-information line, and so does a
\* line that ends, at an LF or at the end of the input, before any `=' or
\* tab.
C17_MetaInfo ==
    InHeader =>
        /\ DOMAIN sc.header.meta_info
               = { MetaKeyOf(b) : b \in MetaLinesRead }
        /\ \A k \in DOMAIN sc.header.meta_info :
               sc.header.meta_info[k]
                   = MetaValues({ b \in MetaLinesRead : MetaKeyOf(b) = k })
        /\ (/\ FirstLineOk /\ MetaLineMalformed
            /\ LineFed(IF HasStopLine THEN StopLine ELSE 0)) =>
               /\ ev = error
               /\ sc.error_message = <<"Malformed meta-information line">>

\* The lines ##K=v, ##L= (CR LF) and ##K=w have been read from one-byte
\* buffers: K has the values v and w, L the empty value.
C17_Witness ==
    /\ InHeader
    /\ chunk_size = 1
    /\ Cardinality(MetaLinesRead) = 3
    /\ DOMAIN sc.header.meta_info = { <<"K">>, <<"L">> }
    /\ sc.header.meta_info[<<"K">>] = << <<"v">>, <<"w">> >>
    /\ sc.header.meta_info[<<"L">>] = << <<>> >>

\* The line behind the meta-information lines has a first token that a
\* tab ends, and the feeds have handed over that tab.
TabTokenFed ==
    /\ InHeader
    /\ FirstLineOk /\ HasStopLine
    /\ FirstTerminator(StopLine) = "\t"
    /\ fed >= StopLine + FirstSeparator(StopLine)

\* Header-line-column parsing has been entered.
HeaderLineEntered == sc.state >= parsing_header_line_columns

\* C18: while a meta-information key is being read, a token ended by a tab
\* starts header-line-column parsing only if it is `#' followed by CHROM;
\* every other token ended by a tab gives error with the message Malformed
\* meta-information line.
C18_HeaderStart ==
    TabTokenFed =>
        IF FirstToken(StopLine) = <<"#">> \o Columns[1]
        THEN HeaderLineEntered
        ELSE /\ ev = error
             /\ sc.state = parsing_metainfo_key
             /\ sc.error_message = <<"Malformed meta-information line">>

\* C18, for the tokens of at least one byte, the first byte being
\* whatever it is: the token starts header-line-column parsing if and only
\* if CHROM follows its first byte.
C18_HeaderStartBehindFirstByte ==
    (TabTokenFed /\ Len(FirstToken(StopLine)) > 0) =>
        IF Tail(FirstToken(StopLine)) = Columns[1]
        THEN HeaderLineEntered
        ELSE /\ ev = error
             /\ sc.state = parsing_metainfo_key
             /\ sc.error_message = <<"Malformed meta-information line">>

\* The first field of a data line, read where the header line should be,
\* was refused.
C18_Witness ==
    /\ TabTokenFed
    /\ FirstToken(StopLine) = <<"1">>
    /\ ev = error
    /\ sc.error_message = <<"Malformed meta-information line">>

\* The input ends in the value of a line ##KEY=VALUE: the line behind the
\* meta-information lines has a key and an `=', but no LF.
EndsInMetaValue ==
    /\ FirstLineOk /\ HasStopLine
    /\ FirstTerminator(StopLine) = "="
    /\ ~MetaLineMalformed

\* C19: if the input ends while the value of a line ##KEY= is being read
\* (no LF ends it), header parsing returns error with the message
\* Unexpected end of file while parsing VCF file header, for every
\* chunking; and header parsing returns ok for no input that ends before a
\* complete header line.
C19_EofInHeader ==
    InHeader =>
        /\ (EndsInMetaValue /\ LineFed(StopLine)) =>
               /\ ev = error
               /\ sc.error_message =
                      <<"Unexpected end of file while parsing VCF file header">>
        /\ (EndsInMetaValue /\ ~LineFed(StopLine)) => ev = need_more_data
        /\ ev = ok => (HeaderLineStarted /\ HeaderColumnsOk)

\* The file ends with ##L=w behind a complete line ##K=v; fed in two-byte
\* buffers and then the zero-length one, header parsing returned the error.
C19_Witness ==
    /\ InHeader
    /\ chunk_size = 2
    /\ EndsInMetaValue /\ LineFed(StopLine)
    /\ ev = error
    /\ DOMAIN sc.header.meta_info = { <<"K">> }
    /\ sc.current_meta_info_key = <<"L">>

----------------------------------------------------------------------------
(* After an error in the header                                            *)

\* A caller that goes on feeding the file after a feed of the header has
\* returned error.
FeedAfterError ==
    /\ ev = error
    /\ calls = 0
    /\ ~at_eof(sc)
    /\ LET chunk == NextChunk(input, fed, chunk_size)
           r     == feed(sc, chunk, ZeroGenotypeValue)
       IN  /\ sc' = r.s
           /\ ev' = r.ev
           /\ fed' = fed + Len(chunk)
    /\ UNCHANGED <<input, chunk_size, op, calls, before, peer, tz>>

NextDead == Next \/ FeedAfterError

\* Files with an error in the header: a first line that is not
\* ##fileformat, a key without ##, a header line of three columns, the end
\* of the file in a value; a well-formed rest follows the first three.
DeadInputs ==
    { <<"t", "\n">> \o HeaderNoGenotypes \o LineOf(BaseFields, 8) \o LF,
      FileformatLine \o <<"K", "=", "v", "\n">> \o HeaderLine(FALSE, <<>>)
          \o LineOf(BaseFields, 8) \o LF,
      FileformatLine \o <<"#">> \o Join(SubSeq(Columns, 1, 3), "\t") \o LF
          \o LineOf(BaseFields, 8) \o LF,
      FileformatLine \o <<"#", "#", "K", "=", "v">> }

SpecDead == InitWith(DeadInputs) /\ [][NextDead]_vars

HeaderErrors ==
    { <<"VCF files must start with '##fileformat'">>,
      <<"Malformed meta-information line">>,
      <<"Malformed VCF header line">>,
      <<"Unexpected end of file while parsing VCF file header">> }

\* A feed of the header has returned error: only header_error stores these
\* messages.
HeaderFailed == sc.error_message \in HeaderErrors

\* C20: once a feed issued during header parsing has returned error, no
\* later feed returns ok or moves the state to parsing_chrom or beyond,
\* and every parse_* call returns error.
C20_HeaderErrorFinal ==
    HeaderFailed =>
        /\ sc.state < parsing_chrom
        /\ op = "header" => ev \notin {ok, ok_with_warnings}
        /\ op \in FieldOps => ev = error

\* C20, for the parse_* calls made while the state is still a state of the
\* header: each returns error and leaves the state, the header, the error
\* message and the read position as they are.
C20_ParseCallsFailInHeaderState ==
    (HeaderFailed /\ op \in FieldOps /\ before.sc.state < parsing_chrom) =>
        /\ ev = error
        /\ sc.state = before.sc.state
        /\ sc.header = before.sc.header
        /\ sc.error_message = before.sc.error_message
        /\ sc.tokenizer = before.sc.tokenizer

\* parse_loc, called after the header line of three columns had been
\* refused, returned error.
C20_Witness ==
    /\ HeaderFailed
    /\ op = "parse_loc"
    /\ before.op = "header" /\ before.ev = error
    /\ before.sc.state = parsing_header_line_columns
    /\ ev = error

----------------------------------------------------------------------------
(* The FORMAT column                                                       *)

\* Headers without FORMAT, with FORMAT and no sample, and with one sample;
\* records that end with INFO, with FORMAT, and with one genotype field.
FormatInputs ==
    { h \o LineOf(BaseFields, n) \o LF \o LineOf(BaseFields, m) \o last
      : h \in {HeaderNoGenotypes, HeaderNoSamples, HeaderOneSample},
        n \in 8..10, m \in {9}, last \in {LF, <<>>} }

SpecFormat == InitWith(FormatInputs) /\ [][Next]_vars

\* parse_genotype_format, invoked in order in front of a column of the
\* record, has returned.
FormatOpReturned ==
    /\ op = "parse_genotype_format"
    /\ ev # need_more_data
    /\ FieldOpInvoked

NoSamples == Len(sc.header.sample_ids) = 0

FormatColumn == number_of_mandatory_columns + 1

\* C21: when the header declares no sample IDs, parse_genotype_format on a
\* data line that has a FORMAT column returns error with the message No
\* genotype information present; when the data line has no FORMAT column
\* and the header declares no sample IDs, the outcome at the end of the
\* line is ok.
C21_FormatWithoutSamples ==
    (FormatOpReturned /\ NoSamples) =>
        IF Len(RecordColumns) >= FormatColumn
        THEN /\ ev = error
             /\ sc.error_message = <<"No genotype information present">>
        ELSE ev = ok

\* C21 as the code has it: a FORMAT column that ends the line gives ok when
\* the header declares no sample IDs and the error No genotype information
\* present when it declares some, the state being end_of_data_line in both
\* cases; a FORMAT column followed by a tab gives ok and parsing_genotypes;
\* a line without FORMAT column gives another error.
C21_FormatEndsLine ==
    FormatOpReturned =>
        IF Len(RecordColumns) = FormatColumn
        THEN /\ sc.state = end_of_data_line
             /\ IF NoSamples THEN ev = ok
                ELSE /\ ev = error
                     /\ sc.error_message
                            = <<"No genotype information present">>
        ELSE IF Len(RecordColumns) > FormatColumn
        THEN ev = ok /\ sc.state = parsing_genotypes
        ELSE /\ ev = error
             /\ sc.error_message # <<"No genotype information present">>

\* With no sample declared, parse_genotype_format skipped to the FORMAT
\* column that ends the second record, across one-byte buffers, and
\* returned ok.
C21_Witness ==
    /\ FormatOpReturned /\ NoSamples
    /\ chunk_size = 1
    /\ sc.header.genotype_info_present
    /\ Len(RecordColumns) = FormatColumn
    /\ before.sc.state = parsing_chrom
    /\ ev = ok
    /\ sc.state = end_of_data_line

----------------------------------------------------------------------------
(* capture_gt                                                              *)

\* One sample; the FORMAT column of the first record is GT, DP or DP:GT,
\* that of the second one GT or DP.
KeyInputs ==
    { HeaderOneSample
          \o LineOf(With(BaseFields, 9, first), 10) \o LF
          \o LineOf(With(BaseFields, 9, second), 10) \o LF
      : first \in { <<"G", "T">>, <<"D", "P">>,
                    <<"D", "P", ":", "G", "T">> },
        second \in { <<"G", "T">>, <<"D", "P">> } }

SpecKeys == InitWith(KeyInputs) /\ [][Next]_vars

\* The keys of the FORMAT column of the record.
FormatKeys ==
    IF Len(RecordColumns) < FormatColumn THEN {}
    ELSE LET keys == Split(RecordColumns[FormatColumn], ":")
         IN  { keys[i] : i \in 1..Len(keys) }

\* capture_gt was called with the scanner standing in a record, in front
\* of the column its state names.
CaptureGtCalled ==
    /\ op = "capture_gt"
    /\ Aligned(before.sc, before.fed)

\* C22: capture_gt returns true if and only if parse_genotype_format has
\* parsed the FORMAT column of the current record and the column holds the
\* key GT; after clear_line has moved to a new record it returns false
\* until parse_genotype_format has returned ok on that record, whatever
\* the FORMAT columns of the earlier records were.
C22_CaptureGt ==
    CaptureGtCalled =>
        (ev = "true" <=> /\ before.sc.state = parsing_genotypes
                         /\ <<"G", "T">> \in FormatKeys)

\* capture_gt was called when parse_genotype_format had just returned ok
\* behind a FORMAT column that a genotype field follows.
CaptureGtAfterFormat ==
    /\ CaptureGtCalled
    /\ before.op = "parse_genotype_format" /\ before.ev = ok
    /\ before.sc.state = parsing_genotypes

\* C22 for the calls the interface asks for: called when
\* parse_genotype_format has just returned ok on the current record,
\* capture_gt returns true if and only if the FORMAT column holds the key
\* GT, and then the genotype value at the position of GT is armed.
C22_CaptureGtAfterFormat ==
    CaptureGtAfterFormat =>
        /\ ev = "true" <=> <<"G", "T">> \in FormatKeys
        /\ ev = "true" =>
               /\ sc.gt_position \in 1..Len(sc.genotype_values)
               /\ sc.genotype_values[sc.gt_position]
                      = [ flag |-> TRUE, data_type |-> vcf_gt ]

\* capture_gt has returned false behind the FORMAT column DP of the second
\* record, the FORMAT column of the first one having held GT.
C22_Witness ==
    /\ CaptureGtAfterFormat
    /\ ev = "false"
    /\ RecordColumns[FormatColumn] = <<"D", "P">>
    /\ before.sc.format_keys = { <<"G", "T">>, <<"D", "P">> }

----------------------------------------------------------------------------
(* GT values                                                               *)

\* GT sub-values: empty, missing and numeric alleles with both separators,
\* alleles around INT_MAX and UINT_MAX, bytes outside the grammar, a
\* separator or a dot where an allele ends, leading zeros, and a sub-value
\* too many.
GtValues ==
    { <<>>, <<".">>, <<"0">>, <<"0", "|", "1">>, <<"1", "/", ".">>,
      <<".", "/", ".">>, <<"0", "|", "1", "/", "2">>, <<"1", "5">>,
      <<"1", "6">>, <<"3", "1">>, <<"3", "2">>, <<"4", "0">>,
      <<"1", "/", "1", "6">>, <<"0", "/", "x">>, <<"x">>, <<"0", "|">>,
      <<"1", ".">>, <<"0", "0", "7">>, <<"3", "2", "x">>, <<"0", ":", "1">> }

\* One sample and one record: FORMAT GT with each of the GT sub-values, and
\* FORMAT DP:GT with a GT sub-value, an empty one and none.
GtInputs ==
    { HeaderOneSample \o LineOf(With(BaseFields, 10, v), 10) \o LF
      : v \in GtValues }
    \cup
    { HeaderOneSample
          \o LineOf(With(With(BaseFields, 9, <<"D", "P", ":", "G", "T">>),
                         10, v), 10) \o LF
      : v \in { <<"3", ":", "1", "/", "0">>, <<"3", ":">>, <<"3">> } }

SpecGt == InitWith(GtInputs) /\ [][Next]_vars

\* The slots of genotype_values that capture_gt has armed.
GtSlots(s) ==
    { k \in 1..Len(s.genotype_values) :
          s.genotype_values[k] = [ flag |-> TRUE, data_type |-> vcf_gt ] }

\* The genotype field that parse_genotype was invoked on, and its
\* sub-values.
GenotypeField ==
    RecordColumns[FormatColumn + 1 + before.sc.current_genotype_field_index]

SubValues == Split(GenotypeField, ":")

\* The FORMAT index of s counts the keys of the FORMAT column of the
\* record: no later parse_genotype_format call has cleared it.
FormatIndexed(s) ==
    /\ Len(RecordColumns) >= FormatColumn
    /\ s.number_of_positions
           = Len(Split(RecordColumns[FormatColumn], ":"))

\* parse_genotype, invoked in order in front of a genotype field whose GT
\* sub-value is captured, has returned.
GtParsed ==
    /\ op = "parse_genotype"
    /\ ev # need_more_data
    /\ FieldOpInvoked
    /\ FormatIndexed(before.sc)
    /\ Len(RecordColumns)
           > FormatColumn + before.sc.current_genotype_field_index
    /\ \E k \in GtSlots(before.sc) : k <= Len(SubValues)

GtSubValue == SubValues[CHOOSE k \in GtSlots(before.sc) : TRUE]

IsSeparator(c) == c \in {"/", "|"}

\* The alleles of a GT sub-value: its pieces between the separators.
GtAlleles(g) ==
    Split([i \in 1..Len(g) |-> IF IsSeparator(g[i]) THEN "/" ELSE g[i]], "/")

IsDigits(a) == Len(a) > 0 /\ \A i \in 1..Len(a) : DigitOf(a[i]) <= 9

IsAllele(a) == a = <<".">> \/ IsDigits(a)

\* The GT grammar: alleles `.' or decimal integers, separated by `/' or `|'.
InGtGrammar(g) ==
    \A i \in 1..Len(GtAlleles(g)) : IsAllele(GtAlleles(g)[i])

AlleleValue(a) == IF a = <<".">> THEN -1 ELSE DecimalValue(a)

GtDecoded(g) ==
    [i \in 1..Len(GtAlleles(g)) |-> AlleleValue(GtAlleles(g)[i])]

\* The numeric alleles of g.
NumericAlleles(g) ==
    { GtAlleles(g)[i] : i \in 1..Len(GtAlleles(g)) } \ { <<".">>, <<>> }

\* No allele of g is refused for its value by a scanner in state s.
AllelesInRange(g, s) ==
    \A a \in NumericAlleles(g) :
        IsDigits(a) =>
            /\ DecimalValue(a) <= UINT_MAX
            /\ s.alleles_parsed => DecimalValue(a) <= Len(s.alts)

\* Byte j of g is outside the GT alphabet and stands where an allele or a
\* separator may start, behind alleles that are accepted.
InvalidByteAt(g, j, s) ==
    LET pre == SubSeq(g, 1, j - 1)
    IN  /\ DigitOf(g[j]) > 9 /\ g[j] # "." /\ ~IsSeparator(g[j])
        /\ \/ pre = <<>>
           \/ InGtGrammar(pre)
           \/ /\ IsSeparator(pre[Len(pre)])
              /\ InGtGrammar(SubSeq(pre, 1, Len(pre) - 1))
        /\ AllelesInRange(pre, s)

\* C23: when parse_genotype returns ok for a genotype field whose GT
\* sub-value is captured, get_gt() holds one entry per allele in order, -1
\* for `.' and otherwise the non-negative value of the decimal allele, for
\* every allele up to UINT_MAX; an empty GT sub-value gives the error Empty
\* GT value, and a byte other than a digit, `.', `/' or `|' in a valid
\* position gives the error Invalid character in GT value.
C23_GtValues ==
    GtParsed =>
        /\ ev = ok => get_gt(sc) = GtDecoded(GtSubValue)
        /\ GtSubValue = <<>> =>
               /\ ev = error
               /\ sc.error_message = <<"Empty GT value">>
        /\ (\E j \in 1..Len(GtSubValue) :
                InvalidByteAt(GtSubValue, j, before.sc)) =>
               /\ ev = error
               /\ sc.error_message = <<"Invalid character in GT value">>

INT_MAX == 2^(UIntBits - 1) - 1

\* C23 for alleles up to INT_MAX: the claim, with the entries of get_gt()
\* as claimed when no allele exceeds INT_MAX.
C23_GtValuesUpToIntMax ==
    GtParsed =>
        /\ (/\ ev = ok
            /\ \A a \in NumericAlleles(GtSubValue) :
                   DecimalValue(a) <= INT_MAX) =>
               get_gt(sc) = GtDecoded(GtSubValue)
        /\ GtSubValue = <<>> =>
               /\ ev = error
               /\ sc.error_message = <<"Empty GT value">>
        /\ (\E j \in 1..Len(GtSubValue) :
                InvalidByteAt(GtSubValue, j, before.sc)) =>
               /\ ev = error
               /\ sc.error_message = <<"Invalid character in GT value">>

\* parse_genotype has decoded the GT sub-value 1/0 behind the DP sub-value
\* of the genotype field 3:1/0, across one-byte buffers.
C23_Witness ==
    /\ GtParsed /\ ev = ok
    /\ chunk_size = 1
    /\ GtSubValue = <<"1", "/", "0">>
    /\ GtSlots(before.sc) = {2}
    /\ get_gt(sc) = <<1, 0>>

----------------------------------------------------------------------------
(* The allele range check                                                  *)

\* Two records with one sample: REF C with ALT G or G,T and GT 2 or 2|3,
\* then REF A with ALT `.' or G and GT 0 or 3.
AlleleInputs ==
    { HeaderOneSample
          \o LineOf(With(With(With(BaseFields, 4, <<"C">>), 5, alt1),
                         10, gt1), 10) \o LF
          \o LineOf(With(With(With(BaseFields, 4, <<"A">>), 5, alt2),
                         10, gt2), 10) \o LF
      : alt1 \in { <<"G">>, <<"G", ",", "T">> },
        gt1 \in { <<"2">>, <<"2", "|", "3">> },
        alt2 \in { <<".">>, <<"G">> },
        gt2 \in { <<"0">>, <<"3">> } }

SpecAlleles == InitWith(AlleleInputs) /\ [][Next]_vars

\* parse_alleles has read the record: the records of a file differ in
\* their REF column, so ref tells which record parse_alleles read last.
AllelesRead(s) == Len(RecordColumns) >= 5 /\ s.ref = RecordColumns[4]

AltCount == Len(ListOf(RecordColumns[5], ","))

AlleleRefused(r) ==
    /\ r.ev = error
    /\ r.s.error_message = <<"Allele index exceeds the number of alleles">>

\* The rule of the range check for a parse_genotype call made in the
\* scanner state s0 with the result r.
AlleleRule(s0, r) ==
    LET g == SubValues[CHOOSE k \in GtSlots(s0) : TRUE]
    IN  /\ AlleleRefused(r) =>
               /\ AllelesRead(s0)
               /\ \E a \in NumericAlleles(g) :
                      IsDigits(a) /\ DecimalValue(a) > AltCount
        /\ (/\ InGtGrammar(g)
            /\ \A a \in NumericAlleles(g) :
                   /\ DecimalValue(a) <= UINT_MAX
                   /\ AllelesRead(s0) => DecimalValue(a) <= AltCount) =>
               r.ev = ok

\* C24: parse_genotype returns the error Allele index exceeds the number
\* of alleles only if parse_alleles has returned ok earlier in the current
\* record and a numeric allele of the GT is greater than the number of ALT
\* entries of the record; an allele equal to that number is accepted, and
\* without parse_alleles in the current record no allele raises the error,
\* whatever the ALT lists of earlier records were.  Checked of the calls
\* made and of the call that may follow a capture_gt that returned true.
C24_AlleleRange ==
    /\ GtParsed => AlleleRule(before.sc, [ s |-> sc, ev |-> ev ])
    /\ (CaptureGtAfterFormat /\ ev = "true") =>
           AlleleRule(sc, Driven(parse_genotype(sc, ZeroGenotypeValue), fed))

\* With the ALT list G,T read by parse_alleles, parse_genotype has accepted
\* the allele 2 of the first record.
C24_Witness ==
    /\ GtParsed /\ ev = ok
    /\ AllelesRead(before.sc) /\ before.sc.alleles_parsed
    /\ AltCount = 2
    /\ get_gt(sc) = <<2>>

\* capture_gt has returned true on the second record, whose ALT column
\* parse_alleles has not read, after parse_alleles on the first record;
\* parse_genotype then accepts the allele 3.
C24_WitnessSecondRecord ==
    /\ CaptureGtAfterFormat /\ ev = "true"
    /\ ~AllelesRead(sc) /\ Len(sc.alts) = 2
    /\ GenotypeField = <<"3">>
    /\ Driven(parse_genotype(sc, ZeroGenotypeValue), fed).ev = ok

----------------------------------------------------------------------------
(* Phasing: two runs that differ in the first genotype field              *)

HeaderTwoSamples ==
    FileformatLine \o HeaderLine(TRUE, << <<"S">>, <<"T">> >>)

\* A record with the genotype fields first and second of two samples.
PhaseFile(first, second) ==
    HeaderTwoSamples
        \o LineOf(With(BaseFields, 10, first), 10) \o <<"\t">> \o second
        \o LF

FirstGts == { <<"0", "|", "1">>, <<"0", "/", "1">>, <<"0">> }

PeerFirstGts == { <<"1", "|", "0">>, <<"1", "/", "0">> }

SecondGts ==
    { <<"1">>, <<".">>, <<"0", "/", "1">>, <<"0", "/", "1", "|", "1">> }

\* Both runs read the same second genotype field behind first genotype
\* fields of their own, in buffers of the same size.
InitPhase ==
    /\ \E first \in FirstGts, other \in PeerFirstGts, second \in SecondGts :
          /\ input = PhaseFile(first, second)
          /\ chunk_size \in ChunkSizes(input)
          /\ peer = PeerInit(PhaseFile(other, second), chunk_size)
    /\ fed = 0
    /\ sc = ScannerInit
    /\ ev = need_more_data
    /\ op = "header"
    /\ calls = 0
    /\ before = Snapshot(ScannerInit, need_more_data, "header", 0)
    /\ tz = NoTokenizer

SpecPhase == InitPhase /\ [][NextPair]_vars

Separators(g) == { i \in 1..Len(g) : IsSeparator(g[i]) }

LastSeparator(g) ==
    g[CHOOSE i \in Separators(g) : \A j \in Separators(g) : j <= i]

\* parse_genotype has returned ok in both runs for the second genotype
\* field, whose GT sub-value is captured.
SecondGtParsed ==
    /\ GtParsed /\ ev = ok
    /\ peer.ev = ok
    /\ before.op = "parse_genotype" /\ before.ev = ok
    /\ before.sc.current_genotype_field_index = 1

\* C25: after parse_genotype has returned ok, is_phased_gt() is determined
\* by the GT sub-value of the genotype field just parsed alone: it is true
\* if the last separator of the sub-value is `|' and false if it is `/',
\* and two runs that differ only in the genotype fields parsed before
\* report the same is_phased_gt() for it.
C25_Phasing ==
    SecondGtParsed =>
        \A junk, other \in BOOLEAN :
            /\ is_phased_gt(sc, junk) = is_phased_gt(peer.sc, other)
            /\ Separators(GtSubValue) # {} =>
                   is_phased_gt(sc, junk)
                       = (LastSeparator(GtSubValue) = "|")

\* C25 for GT sub-values with a separator: is_phased_gt() tells whether
\* the last separator is `|'; a GT sub-value of one allele leaves
\* is_phased_gt() as the calls before left it.
C25_PhasingOfSeparators ==
    (GtParsed /\ ev = ok) =>
        IF Separators(GtSubValue) # {}
        THEN \A junk \in BOOLEAN :
                 is_phased_gt(sc, junk) = (LastSeparator(GtSubValue) = "|")
        ELSE /\ sc.phased_gt_written = before.sc.phased_gt_written
             /\ sc.phased_gt = before.sc.phased_gt

\* Behind the first genotype field 0|1, parse_genotype has decoded the
\* second one, 0/1|1 in one run and the same in the other run, behind 1/0.
C25_Witness ==
    /\ SecondGtParsed
    /\ GtSubValue = <<"0", "/", "1", "|", "1">>
    /\ before.sc.phased_gt /\ sc.phased_gt
    /\ peer.sc.phased_gt
    /\ get_gt(sc) = <<0, 1, 1>>

----------------------------------------------------------------------------
(* Writing the decoded GT (examples/dump_vcf.cc)                           *)

RECURSIVE DecimalDigits(_)
\* operator<< of a non-negative int.
DecimalDigits(n) ==
    IF n < 10 THEN << Digits[n + 1] >>
    ELSE DecimalDigits(n \div 10) \o << Digits[(n % 10) + 1] >>

\* The allele as dump_vcf writes it.
WriteAllele(allele) == IF allele < 0 THEN <<".">> ELSE DecimalDigits(allele)

\* The alleles of gt as dump_vcf writes them, with the separator that
\* is_phased_gt() selects between them.
WriteGt(gt, phased) ==
    Join([i \in 1..Len(gt) |-> WriteAllele(gt[i])],
         IF phased THEN "|" ELSE "/")

\* C26: for every GT string of the grammar that parse_genotype accepts,
\* writing the decoded alleles, `.' for -1, joined by the separator that
\* is_phased_gt() reports, gives the input string.
C26_RoundTrip ==
    (GtParsed /\ ev = ok) =>
        \A junk \in BOOLEAN :
            WriteGt(get_gt(sc), is_phased_gt(sc, junk)) = GtSubValue

\* A GT string of the grammar with one kind of separator and numeric
\* alleles without leading zeros, none above INT_MAX.
Canonical(g) ==
    /\ InGtGrammar(g)
    /\ \A i, j \in Separators(g) : g[i] = g[j]
    /\ \A a \in NumericAlleles(g) :
           /\ Len(a) > 1 => a[1] # "0"
           /\ DecimalValue(a) <= INT_MAX

\* C26 for GT strings with one kind of separator and numeric alleles up to
\* INT_MAX without leading zeros.
C26_RoundTripCanonical ==
    (GtParsed /\ ev = ok /\ Canonical(GtSubValue)) =>
        \A junk \in BOOLEAN :
            WriteGt(get_gt(sc), is_phased_gt(sc, junk)) = GtSubValue

\* The genotype field 1/. has been decoded to <<1, -1>>, unphased, and is
\* written as 1/. again.
C26_Witness ==
    /\ GtParsed /\ ev = ok
    /\ GtSubValue = <<"1", "/", ".">>
    /\ get_gt(sc) = <<1, -1>>
    /\ sc.phased_gt_written /\ ~sc.phased_gt
    /\ WriteGt(get_gt(sc), FALSE) = <<"1", "/", ".">>

----------------------------------------------------------------------------
(* The sub-values of a genotype field                                      *)

\* A record with the FORMAT column and the genotype field given.
SubFile(format, field) ==
    HeaderOneSample
        \o LineOf(With(With(BaseFields, 9, format), 10, field), 10) \o LF

\* One sample; FORMAT GT, DP:GT and GT:DP with genotype fields of fewer
\* sub-values than keys, as many, and more, and with GT sub-values that
\* are refused.
SubInputs ==
    { SubFile(<<"G", "T">>, f) :
          f \in { <<"0", "|", "1">>, <<"0", "|", "1", ":", "3">>,
                  <<"x", ":", "3">>, <<":">> } }
    \cup
    { SubFile(<<"D", "P", ":", "G", "T">>, f) :
          f \in { <<"3">>, <<"3", ":", "0", "|", "1">>,
                  <<"3", ":", "0", "|", "1", ":", "4">>,
                  <<"3", ":", "x", ":", "4">>,
                  <<"3", ":", "2", ":", "4">> } }
    \cup
    { SubFile(<<"G", "T", ":", "D", "P">>, f) :
          f \in { <<"0", "|", "1", ":", "3", ":", "4">>, <<"0", "|", "1">>,
                  <<"0", "|", "1", ":", "3">> } }

SpecSub == InitWith(SubInputs) /\ [][Next]_vars

\* parse_genotype, invoked in order in front of a genotype field of one of
\* the samples, the FORMAT index being that of the record, has returned.
GenotypeParsed ==
    /\ op = "parse_genotype"
    /\ ev \notin {need_more_data}
    /\ FieldOpInvoked
    /\ FormatIndexed(before.sc)
    /\ before.sc.current_genotype_field_index
           < Len(before.sc.header.sample_ids)
    /\ Len(RecordColumns)
           > FormatColumn + before.sc.current_genotype_field_index

TooManySubValues ==
    /\ ev = error
    /\ sc.error_message = <<"Too many genotype info fields">>

NumberOfKeys == Len(Split(RecordColumns[FormatColumn], ":"))

\* C27: parse_genotype returns the error Too many genotype info fields if
\* and only if the genotype field holds more sub-values than the FORMAT
\* column has keys; a genotype field with fewer sub-values than keys is
\* accepted with ok.
C27_TooMany ==
    GenotypeParsed =>
        /\ TooManySubValues <=> Len(SubValues) > NumberOfKeys
        /\ Len(SubValues) < NumberOfKeys => ev = ok

\* Every slot that parse_genotype may read exists: genotype_values has a
\* slot for each FORMAT key.
SlotsAllocated(s) == s.number_of_positions <= Len(s.genotype_values)

\* The GT sub-value of the genotype field, if a slot is armed and the field
\* has that sub-value, is one that parse_gt accepts.
GtAccepted(s) ==
    \A k \in GtSlots(s) :
        k <= Len(SubValues) =>
            /\ InGtGrammar(SubValues[k])
            /\ AllelesInRange(SubValues[k], s)

\* C27 where every slot read exists: the error is Too many genotype info
\* fields if and only if the field holds more sub-values than the FORMAT
\* column has keys and its GT sub-value, if captured, is accepted; a field
\* with fewer sub-values whose GT sub-value is accepted gives ok.
C27_TooManyOfAllocatedSlots ==
    (GenotypeParsed /\ SlotsAllocated(before.sc)) =>
        /\ TooManySubValues <=>
               (Len(SubValues) > NumberOfKeys /\ GtAccepted(before.sc))
        /\ (Len(SubValues) < NumberOfKeys /\ GtAccepted(before.sc)) =>
               ev = ok

\* With FORMAT DP:GT and GT captured, the genotype field 3:0|1:4 has been
\* refused for its third sub-value, across one-byte buffers.
C27_Witness ==
    /\ GenotypeParsed /\ SlotsAllocated(before.sc)
    /\ chunk_size = 1
    /\ GtSlots(before.sc) = {2}
    /\ Len(SubValues) = 3 /\ NumberOfKeys = 2
    /\ TooManySubValues
    /\ get_gt(sc) = <<0, 1>>

\* With FORMAT DP:GT and GT captured, the genotype field 3 has been
\* accepted.
C27_WitnessFewer ==
    /\ GenotypeParsed /\ SlotsAllocated(before.sc)
    /\ GtSlots(before.sc) = {2}
    /\ Len(SubValues) = 1 /\ NumberOfKeys = 2
    /\ ev = ok

----------------------------------------------------------------------------
(* The number of genotype fields                                           *)

\* A record with FORMAT GT and the genotype fields given, behind a header
\* with the samples given.
CountFile(samples, fields) ==
    FileformatLine \o HeaderLine(TRUE, samples)
        \o LineOf(BaseFields, 9) \o <<"\t">> \o Join(fields, "\t") \o LF

\* No sample with one genotype field; one sample with one and with two
\* genotype fields; two samples with two and with three genotype fields,
\* and with a first genotype field that is refused.
CountInputs ==
    { CountFile(<<>>, << <<"0">> >>),
      CountFile(<< <<"S">> >>, << <<"0", "|", "1">> >>),
      CountFile(<< <<"S">> >>, << <<"0", "|", "1">>, <<"1", "/", "1">> >>),
      CountFile(<< <<"S">>, <<"T">> >>, << <<"0", "|", "1">>, <<"1">> >>),
      CountFile(<< <<"S">>, <<"T">> >>,
                << <<"0", "|", "1">>, <<"1">>, <<"0">> >>),
      CountFile(<< <<"S">>, <<"T">> >>, << <<"x">>, <<"1">>, <<"0">> >>) }

SpecCount == InitWith(CountInputs) /\ [][Next]_vars

NumberOfSamples == Len(sc.header.sample_ids)

\* Number of tabs of the record that the scanner had read when the last
\* operation was invoked: the tabs behind the FORMAT column end genotype
\* fields.
TabsRead ==
    Cardinality({ i \in (RecordStart + 1)..Consumed(before.sc, before.fed) :
                      input[i] = "\t" })

TooManyFields ==
    /\ ev = error
    /\ sc.error_message
           = <<"The number of genotype fields exceeds the number of samples">>

\* parse_genotype was invoked in state parsing_genotypes when no operation
\* had failed for the data and n genotype fields had been read, each up to
\* its tab.
InvokedBehindFields(n) ==
    /\ op = "parse_genotype"
    /\ before.sc.state = parsing_genotypes
    /\ before.sc.error_message = <<>>
    /\ TabsRead = FormatColumn + n
    /\ input[Consumed(before.sc, before.fed)] = "\t"

\* C28: with N samples declared, parse_genotype fails for the number of
\* genotype fields only when N genotype fields of the record have been
\* read, so none of the first N calls on a record does; and the call made
\* after N genotype fields have each been parsed up to their tab returns
\* the error The number of genotype fields exceeds the number of samples
\* and reads nothing.
C28_FieldCount ==
    /\ (/\ op = "parse_genotype"
        /\ before.sc.state = parsing_genotypes
        /\ TooManyFields) =>
           TabsRead >= FormatColumn + NumberOfSamples
    /\ InvokedBehindFields(NumberOfSamples) =>
           /\ TooManyFields
           /\ sc.tokenizer = before.sc.tokenizer
           /\ fed = before.fed
           /\ sc.state = parsing_genotypes

\* With the samples S and T, the third parse_genotype call of the record
\* has been refused in front of the third genotype field.
C28_Witness ==
    /\ InvokedBehindFields(2) /\ NumberOfSamples = 2
    /\ TooManyFields
    /\ before.op = "parse_genotype" /\ before.ev = ok
    /\ Len(sc.tokenizer.buf) > 0

----------------------------------------------------------------------------
(* genotype_available                                                      *)

\* Records with FORMAT GT or DP:GT and no, one or two genotype fields,
\* ended by a newline, by CR LF, by the end of the input, and by a tab at
\* the end of the input.
AvailInputs ==
    { FileformatLine \o HeaderLine(TRUE, samples)
          \o LineOf(With(BaseFields, 9, format), 9) \o fields \o ending
      : samples \in { << <<"S">>, <<"T">> >> },
        format \in { <<"G", "T">>, <<"D", "P", ":", "G", "T">> },
        fields \in { <<"\t", "3", ":", "0", "|", "1">>,
                     <<"\t", "0", "\t", "3", ":", "1">> },
        ending \in { LF, CRLF, <<>>, <<"\t">> } }
    \cup
    { HeaderNoSamples \o LineOf(BaseFields, 9) \o ending
      : ending \in { LF, <<>>, <<"\t">> } }

SpecAvail == InitWith(AvailInputs) /\ [][Next]_vars

\* The column that the last operation, parse_genotype_format or
\* parse_genotype, was invoked in front of.
ColumnInvokedOn ==
    IF op = "parse_genotype_format" THEN FormatColumn
    ELSE FormatColumn + 1 + before.sc.current_genotype_field_index

\* parse_genotype_format or parse_genotype, invoked in order, has returned
\* ok, at once or after need_more_data and the buffers that followed.
GenotypeOpOk ==
    /\ op \in {"parse_genotype_format", "parse_genotype"}
    /\ ev \in {ok, ok_with_warnings}
    /\ FieldOpInvoked
    /\ Len(RecordColumns) >= ColumnInvokedOn

\* parse_genotype, invoked in order behind a column that a tab ended, has
\* returned need_more_data and waits for the next buffer.
GenotypePending ==
    /\ op = "parse_genotype"
    /\ ev = need_more_data
    /\ FieldOpInvoked
    /\ genotype_available(before.sc)

\* The bytes read since the last operation was invoked.
BytesReadByOp ==
    (Consumed(before.sc, before.fed) + 1)..Consumed(sc, fed)

\* C29: after parse_genotype_format or parse_genotype has returned ok,
\* genotype_available() is true if and only if another genotype field
\* follows on the data line, that is if and only if a tab, and neither a
\* newline nor the end of the input, ended the column just parsed; a
\* need_more_data return in between does not change its value.
C29_GenotypeAvailableKept ==
    /\ GenotypeOpOk =>
           (genotype_available(sc) <=> Len(RecordColumns) > ColumnInvokedOn)
    /\ GenotypePending =>
           genotype_available(sc) = genotype_available(before.sc)

\* C29 as the code has it: the value after ok is as claimed, whether or
\* not the operation returned need_more_data in between; while
\* parse_genotype waits for the next buffer, the value stays true only as
\* long as no `:' of the genotype field has been read.
C29_GenotypeAvailable ==
    /\ GenotypeOpOk =>
           (genotype_available(sc) <=> Len(RecordColumns) > ColumnInvokedOn)
    /\ GenotypePending =>
           (genotype_available(sc)
                <=> \A i \in BytesReadByOp : input[i] # ":")

\* parse_genotype has returned ok for the last genotype field, 3:1, which
\* the end of the input ends, after need_more_data: genotype_available()
\* is false, and it was true before the call.
C29_Witness ==
    /\ GenotypeOpOk /\ op = "parse_genotype"
    /\ fed > before.fed /\ fed = Len(input)
    /\ sc.tokenizer.terminator = EOF
    /\ genotype_available(before.sc)
    /\ ~genotype_available(sc)

----------------------------------------------------------------------------
(* Buffers installed behind the zero-length one                            *)

\* Buffers a caller may install after it has signalled the end of the
\* input: the zero-length one again, or more bytes.
LateBuffers == { <<>>, <<"a">>, <<"a", "\n">> }

\* tokenizer.set_new_buffer called again behind a zero-length buffer, by a
\* caller whose source has grown.
TokFeedAfterEof ==
    /\ tz.on
    /\ tokenizer_at_eof(tz.t)
    /\ Len(tz.cuts) <= MaxTokStream + 1
    /\ \E buffer \in LateBuffers :
          tz' = [tz EXCEPT !.t = set_new_buffer(@, buffer),
                           !.cuts = Append(@, Len(buffer)),
                           !.need = FALSE,
                           !.done = FALSE]
    /\ UNCHANGED <<input, chunk_size, fed, sc, ev, op, calls, before, peer>>

NextLatch == TokFeed \/ TokPrepare \/ TokFeedAfterEof

SpecLatch == InitTok /\ [][NextLatch]_vars

\* A zero-length buffer has been installed.
EofSignalled == \E i \in 1..Len(tz.cuts) : tz.cuts[i] = 0

----------------------------------------------------------------------------
(* Warnings                                                                *)

\* The FORMAT column of the record holds the key GT behind another key,
\* and a genotype field follows the column.
GtNotFirst ==
    /\ Len(RecordColumns) > FormatColumn
    /\ <<"G", "T">> \in FormatKeys
    /\ Split(RecordColumns[FormatColumn], ":")[1] # <<"G", "T">>

\* C31: parse_genotype_format on a FORMAT column in which GT is present
\* but is not the first key returns ok_with_warnings, not ok and not
\* error, records a warning, and the parsing of the record continues.
C31_FormatWarning ==
    (FormatOpReturned /\ GtNotFirst) =>
        /\ ev = ok_with_warnings
        /\ Len(sc.warnings) > Len(before.sc.warnings)
        /\ sc.state = parsing_genotypes

\* What the code does where the warning is left to be written: the column
\* is indexed, GT at its position, the event is ok and the list of
\* warnings stays empty; no operation returns ok_with_warnings.
C31_NoWarningRaised ==
    /\ ev # ok_with_warnings
    /\ sc.warnings = <<>>
    /\ (FormatOpReturned /\ GtNotFirst) =>
           /\ ev = ok
           /\ sc.state = parsing_genotypes
           /\ sc.gt_position = 2
           /\ sc.number_of_positions = 2

\* parse_genotype_format has returned ok behind the FORMAT column DP:GT,
\* read across one-byte buffers.
C31_Witness ==
    /\ FormatOpReturned /\ GtNotFirst
    /\ RecordColumns[FormatColumn] = <<"D", "P", ":", "G", "T">>
    /\ chunk_size = 1
    /\ ev = ok

----------------------------------------------------------------------------
(* Calls out of order                                                      *)

\* The outcome of the field operation `name' called on the scanner s.
Invoke(name, s, wild) ==
    CASE name = "parse_loc" -> parse_loc(s)
      [] name = "parse_ids" -> parse_ids(s)
      [] name = "parse_alleles" -> parse_alleles(s)
      [] name = "parse_quality" -> parse_quality(s)
      [] name = "parse_filters" -> parse_filters(s)
      [] name = "parse_info" -> parse_info(s)
      [] name = "parse_genotype_format" -> parse_genotype_format(s)
      [] name = "parse_genotype" -> parse_genotype(s, wild)

\* The call that led from s0 to the outcome r was refused and left the
\* state, the view of the buffer and the line number alone.
Refused(s0, r) ==
    /\ r.ev = error
    /\ r.s.state = s0.state
    /\ r.s.tokenizer.buf = s0.tokenizer.buf
    /\ get_line_number(r.s) = get_line_number(s0)

\* C32: with the assertions compiled out, a field operation that is not
\* valid in the current state (parse_loc when state # parsing_chrom,
\* parse_ids .. parse_genotype_format when state is before parsing_chrom or
\* past the operation's own column, parse_genotype when state #
\* parsing_genotypes) returns error and leaves state, the read position in
\* the buffer and the line number unchanged: so for the calls the caller
\* made, and so for every call it could make in any state reached, a feed
\* pending or not.
C32_OutOfOrder ==
    /\ (op \in FieldOps /\ ~InOrder(before.sc, op)) =>
           /\ Refused(before.sc, R(sc, ev))
           /\ fed = before.fed
    /\ \A name \in FieldOps :
           ~InOrder(sc, name) =>
               \A wild \in WildFor(sc) : Refused(sc, Invoke(name, sc, wild))

\* parse_ids was called behind the ALT column, with unread bytes of the
\* record in the buffer, and returned error.
C32_Witness ==
    /\ op = "parse_ids"
    /\ before.sc.state = parsing_quality
    /\ before.ev = ok
    /\ Len(before.sc.tokenizer.buf) > 0
    /\ before.sc.tokenizer.buf[1] # "\n"
    /\ ev = error

----------------------------------------------------------------------------
(* The events of header parsing                                            *)

\* C33: for every byte stream fed during header parsing, a header-section
\* line whose first byte is a tab included, each feed returns one of
\* need_more_data, ok and error; no input makes header parsing end
\* abnormally instead of returning an event.
C33_HeaderStatus ==
    InHeader => ev \in {need_more_data, ok, error}

\* The line behind the meta-information lines starts with a tab, and the
\* feeds have handed over that tab.
EmptyTabTokenFed ==
    /\ TabTokenFed
    /\ Len(FirstToken(StopLine)) = 0

\* C33 with the case the code misses set apart: header parsing ends
\* without an event exactly when the feeds have handed over a line behind
\* the first one that starts with a tab; every other feed returns
\* need_more_data, ok or error.
C33_HeaderStatusUnlessEmptyToken ==
    InHeader =>
        /\ ev \in {need_more_data, ok, error, terminated}
        /\ ev = terminated <=> EmptyTabTokenFed

\* Fed byte by byte, the header ##fileformat=V, <tab>POS has ended header
\* parsing without an event, in the state parsing_metainfo_key.
C33_Witness ==
    /\ InHeader
    /\ chunk_size = 1
    /\ EmptyTabTokenFed
    /\ ev = terminated
    /\ sc.state = parsing_metainfo_key
    /\ sc.tokenizer.terminator = "\t"

----------------------------------------------------------------------------
(* The tokenizer under a caller that extracts and skips tokens             *)

\* The byte streams of the caller that extracts and skips.
FrameStreams ==
    UNION { [1..n -> {"a", "\t", "\n", "\r"}] : n \in 0..MaxTokStream }

InitFrame ==
    /\ input \in FrameStreams
    /\ tz = TokDriverInit(newline_or_tab)
    /\ chunk_size = 0
    /\ fed = 0
    /\ sc = ScannerInit
    /\ ev = need_more_data
    /\ op = "tokenizer"
    /\ calls = 0
    /\ before = Snapshot(ScannerInit, need_more_data, "tokenizer", 0)
    /\ peer = NoPeer

\* A call of the tokenizer operation `name' with the outcome r; `before'
\* keeps the tokenizer the call found.
TokCall(name, r) ==
    /\ tz' = [tz EXCEPT
                !.t = r.t,
                !.need = ~r.ret,
                !.out = IF r.ret /\ name = "prepare_token_or_accumulate"
                        THEN Append(@, TokenOf(r.t)) ELSE @,
                !.done = r.ret /\ r.t.terminator = EOF]
    /\ op' = name
    /\ ev' = IF r.ret THEN "true" ELSE "false"
    /\ before' = Snapshot([ScannerInit EXCEPT !.tokenizer = tz.t],
                          ev, op, tz.fed)
    /\ UNCHANGED <<input, chunk_size, fed, sc, calls, peer>>

\* tokenizer.prepare_token_or_accumulate(tokenizer.find_newline_or_tab())
TokExtract ==
    /\ ~tz.need /\ ~tz.done
    /\ TokCall("prepare_token_or_accumulate",
               prepare_token_or_accumulate(
                   tz.t, find_char_from_set(tz.t, tz.set)))

\* tokenizer.skip_token(tokenizer.find_newline_or_tab())
TokSkip ==
    /\ ~tz.need /\ ~tz.done
    /\ TokCall("skip_token",
               skip_token(tz.t, find_char_from_set(tz.t, tz.set)))

NextFrame == TokFeed \/ TokExtract \/ TokSkip

SpecFrame == InitFrame /\ [][NextFrame]_vars

\* The last tokenizer call was prepare_token_or_accumulate or skip_token
\* and returned false.
TokReturnedFalse ==
    /\ op \in {"prepare_token_or_accumulate", "skip_token"}
    /\ ev = "false"

\* C34: when prepare_token_or_accumulate or skip_token returns false (no
\* delimiter in the view and the end of input not signalled), the last
\* token, the last terminator and the line number are unchanged, also
\* behind the next buffer; until that buffer is installed nothing but the
\* accumulator and the accumulating flag differs from before the call.
C34_TokenizerFrame ==
    TokReturnedFalse =>
        LET t0 == before.sc.tokenizer
        IN  /\ tz.t.token = t0.token
            /\ tz.t.terminator = t0.terminator
            /\ tz.t.line_number = t0.line_number
            /\ tz.need =>
                   tz.t = [t0 EXCEPT !.accumulator = tz.t.accumulator,
                                     !.accumulating = tz.t.accumulating]

\* Behind the token a ended by LF on line 1, prepare_token_or_accumulate
\* has found no delimiter in the rest of the buffer and returned false:
\* the token is still a, the terminator LF, the line number 2.
C34_Witness ==
    /\ TokReturnedFalse
    /\ op = "prepare_token_or_accumulate"
    /\ tz.need
    /\ tz.t.token = <<"a">>
    /\ tz.t.terminator = "\n"
    /\ tz.t.line_number = 2
    /\ tz.t.accumulating
    /\ tz.t.accumulator = <<"a", "a">>

----------------------------------------------------------------------------
(* The accumulator                                                         *)

\* C35: in every reachable tokenizer state, the accumulator is empty
\* whenever the accumulating flag is false.
C35_AccumulatorEmpty ==
    ~tz.t.accumulating => tz.t.accumulator = <<>>

\* The tokenizer t with an empty accumulator.
Emptied(t) == [t EXCEPT !.accumulator = <<>>]

\* The outcomes r and q of an operation differ at most in the bytes an
\* accumulator holds while nothing is being accumulated.
SameButLeftover(r, q) ==
    /\ r.ret = q.ret
    /\ Emptied(r.t) = Emptied(q.t)
    /\ r.t.accumulating => r.t.accumulator = q.t.accumulator

\* The delimiter classes of the tokenizer.
DelimiterClasses ==
    { newline_only, newline_or_tab, newline_or_tab_or_equals,
      newline_or_tab_or_semicolon, newline_or_tab_or_comma,
      newline_or_tab_or_colon }

\* C35 as the code has it: while the accumulating flag is false the
\* accumulator may hold the bytes of the last accumulation, which end
\* the last token when that accumulation has ended with a token, but it
\* is not read: prepare_token_or_accumulate and skip_token give the
\* outcome they give with an empty accumulator, and an accumulation that
\* starts replaces the bytes left over.
C35_AccumulatorNotRead ==
    /\ ~tz.t.accumulating =>
           \A set \in DelimiterClasses :
               /\ SameButLeftover(
                      prepare_token_or_accumulate(
                          tz.t, find_char_from_set(tz.t, set)),
                      prepare_token_or_accumulate(
                          Emptied(tz.t), find_char_from_set(tz.t, set)))
               /\ SameButLeftover(
                      skip_token(tz.t, find_char_from_set(tz.t, set)),
                      skip_token(Emptied(tz.t), find_char_from_set(tz.t, set)))
    /\ (/\ op = "prepare_token_or_accumulate" /\ ev = "true"
        /\ before.sc.tokenizer.accumulating) =>
           /\ ~tz.t.accumulating
           /\ tz.t.accumulator = tz.t.token

\* The token aa, whose halves came in two buffers, has been extracted at
\* a tab: the accumulating flag is false and the accumulator holds aa.
C35_Witness ==
    /\ op = "prepare_token_or_accumulate" /\ ev = "true"
    /\ before.sc.tokenizer.accumulating
    /\ ~tz.t.accumulating
    /\ tz.t.terminator = "\t"
    /\ tz.t.token = <<"a", "a">>
    /\ tz.t.accumulator = <<"a", "a">>

----------------------------------------------------------------------------
(* The header behind its parsing                                           *)

\* Header parsing has returned ok: the feed that ended it has, or a call
\* made since has left the scanner in a state of the records (a header in
\* error keeps its own state).
HeaderBuilt ==
    /\ sc.state >= parsing_chrom
    /\ calls > 0 \/ ev = ok

\* C36: once header parsing has returned ok, no parse_* call, no
\* clear_line and no feed changes file_format_version, meta_info,
\* genotype_info_present or sample_ids.
C36_HeaderReadOnly ==
    [][HeaderBuilt =>
           /\ sc'.header.file_format_version = sc.header.file_format_version
           /\ sc'.header.meta_info = sc.header.meta_info
           /\ sc'.header.genotype_info_present
                  = sc.header.genotype_info_present
           /\ sc'.header.sample_ids = sc.header.sample_ids]_vars

\* Behind the header with the meta-information lines ##K=v, ##L= and ##K=w
\* and the sample S, fed byte by byte, the calls parse_genotype_format,
\* capture_gt, parse_genotype and clear_line have been made, each but the
\* last one resumed by feeds: the header is the one that was built.
C36_Witness ==
    /\ chunk_size = 1
    /\ calls = 4
    /\ op = "clear_line" /\ ev = ok
    /\ before.op = "parse_genotype" /\ before.ev = ok
    /\ sc.header.file_format_version = <<"V">>
    /\ DOMAIN sc.header.meta_info = { <<"K">>, <<"L">> }
    /\ sc.header.meta_info[<<"K">>] = << <<"v">>, <<"w">> >>
    /\ sc.header.genotype_info_present
    /\ sc.header.sample_ids = << <<"S">> >>

----------------------------------------------------------------------------
(* A caller that gives up an operation                                     *)

\* clear_line called while a field operation waits for more data: the
\* caller gives the operation up instead of feeding.
ClearLinePending ==
    /\ ev = need_more_data
    /\ op \in FieldOps
    /\ calls < MaxCalls
    /\ Call("clear_line", clear_line(sc))

NextAbandon == Next \/ ClearLinePending

SpecAbandon == InitWith(TestInputs) /\ [][NextAbandon]_vars

\* The column name in the message of s was read outside the array of
\* column names.
NameOutOfBounds(s) ==
    \E i \in 1..Len(s.error_message) : s.error_message[i] = Indeterminate

\* The scanner is skipping to, or peeking beyond, the end of the line.
LeavingLine ==
    sc.state \in {skipping_to_next_line, peeking_beyond_newline}

\* C37: for every sequence of feed, parse_* and clear_line calls, a
\* clear_line called right after a parse_* has returned need_more_data
\* while skipping fields included, the index that
\* missing_mandatory_field_error passes to get_header_line_column lies in
\* 0..9, and fields_to_skip is 0 whenever state is skipping_to_next_line
\* or peeking_beyond_newline.
C37_ColumnIndex ==
    /\ ~NameOutOfBounds(sc)
    /\ LeavingLine => sc.fields_to_skip = 0

\* clear_line was called on an operation that was waiting for more data
\* with fields left to skip, and is itself waiting.
SkipAbandoned ==
    /\ op = "clear_line"
    /\ before.ev = need_more_data
    /\ before.sc.fields_to_skip > 0
    /\ before.sc.state \in parsing_id..parsing_genotype_format
    /\ LeavingLine

\* C37 for the callers that feed when they are asked to: fields_to_skip
\* is not 0 in the states skipping_to_next_line and peeking_beyond_newline
\* only behind a clear_line called on an operation that was skipping
\* fields, and a column name is read outside the array only by a feed that
\* resumes such a clear_line.
C37_ColumnIndexUnlessAbandoned ==
    /\ [](LeavingLine /\ sc.fields_to_skip # 0 => SkipAbandoned)
    /\ [][~NameOutOfBounds(sc) /\ NameOutOfBounds(sc')
              => SkipAbandoned /\ sc.fields_to_skip > 0]_vars

\* parse_ids, called in front of the record 1<tab>5 with the one-byte
\* buffer 1, was given up by clear_line; the feeds that resumed clear_line
\* skipped the field 5 as if it were a field to skip and reported a
\* missing field by the name at index 11.
C37_Witness ==
    /\ op = "clear_line"
    /\ before.op = "parse_ids"
    /\ before.ev = need_more_data
    /\ before.sc.fields_to_skip = 2
    /\ chunk_size = 1
    /\ ev = error
    /\ sc.state = end_of_data_line
    /\ NameOutOfBounds(sc)

----------------------------------------------------------------------------
(* The slots of genotype_values                                            *)

\* parse_genotype, or a feed that resumed it, has read a slot that
\* genotype_values does not have: of what such a read may give, the memory
\* fault is the outcome that ends the run, at the index that was read.
SlotReadOutside ==
    /\ op = "parse_genotype"
    /\ ev = terminated

\* C38: during parse_genotype and the feeds that resume it, every slot of
\* genotype_values that is read has an index smaller than
\* genotype_values.size(), for every FORMAT column (any number of keys, GT
\* at any position or absent) and whether or not capture_gt was called for
\* the record.
C38_GenotypeSlotBound == ~SlotReadOutside

\* What a read outside the vector gives when the memory is not mapped.
SlotFault == [ flag |-> FALSE, data_type |-> MemoryFault ]

\* genotype_values has a slot for every key of the FORMAT index, and one
\* at least.
EverySlotAllocated(s) ==
    /\ Len(s.genotype_values) >= 1
    /\ Len(s.genotype_values) >= s.number_of_positions

\* C38 as the code has it: the slots read are those from 0 up to the last
\* sub-value of the genotype field, below the number of keys behind the
\* first one, whatever the size of the vector, which only capture_gt
\* extends, up to the slot of GT.  A read outside the vector is one at an
\* index not smaller than its size, and there is none when the vector has
\* a slot for every key and one at least; on an empty vector the first
\* read of parse_genotype is outside.
C38_SlotBoundOfAllocatedSlots ==
    /\ SlotReadOutside =>
           /\ sc.current_genotype_value_index >= Len(sc.genotype_values)
           /\ ~EverySlotAllocated(before.sc)
    /\ (/\ sc.state = parsing_genotypes
        /\ sc.current_genotype_field_index < Len(sc.header.sample_ids)
        /\ Len(sc.genotype_values) = 0) =>
           parse_genotype(sc, SlotFault).ev = terminated

\* With FORMAT GT:DP and GT captured, parse_genotype has read the GT
\* sub-value 0|1 from slot 0 and then, for the sub-value 3, the slot 1 of
\* a vector of size 1.
C38_Witness ==
    /\ SlotReadOutside
    /\ RecordColumns[FormatColumn] = <<"G", "T", ":", "D", "P">>
    /\ GtSlots(before.sc) = {1}
    /\ Len(sc.genotype_values) = 1
    /\ sc.current_genotype_value_index = 1
    /\ get_gt(sc) = <<0, 1>>
    /\ sc.tokenizer.terminator = ":"

----------------------------------------------------------------------------
(* The buffer at a seam                                                    *)

\* The bytes that end a token in one or another delimiter class.
SeamDelimiters == {"\n", "\t", "=", ";", ",", ":"}

\* The accumulator of s holds the bytes of the input from the start of a
\* token up to the last byte fed, n bytes having been fed.
Copied(s, n) ==
    LET acc == s.tokenizer.accumulator
    IN  /\ s.tokenizer.accumulating
        /\ Len(acc) <= n
        /\ acc = SubSeq(input, n - Len(acc) + 1, n)
        /\ Len(s.tokenizer.buf) <= Len(acc)
        /\ n = Len(acc) \/ input[n - Len(acc)] \in SeamDelimiters

\* The delimiter class under which s is skipping.
SkipClass(s) ==
    IF s.state = skipping_to_next_line THEN newline_only
    ELSE IF s.state = parsing_genotypes THEN newline_or_tab_or_colon
    ELSE newline_or_tab

\* The view of s holds nothing but bytes of a token that is being
\* skipped.
Skipped(s) ==
    /\ ~s.tokenizer.accumulating
    /\ \/ s.state \in {skipping_to_next_line, parsing_genotypes}
       \/ s.fields_to_skip > 0
    /\ \A i \in 1..Len(s.tokenizer.buf) :
           s.tokenizer.buf[i] \notin SkipClass(s)

SlotsInsideVector ==
    op = "parse_genotype" => EverySlotAllocated(before.sc)

----------------------------------------------------------------------------
(* The order of the states                                                 *)

\* The step lowers the state to parsing_chrom and returns ok: the header
\* is complete, or clear_line, or the feed that resumes it, has moved to
\* the next line.
NextLineStep ==
    /\ sc'.state = parsing_chrom
    /\ ev' = ok
    /\ op' \in {"header", "clear_line"}

\* C40: between two completions of clear_line the state never decreases
\* in the order of the State enumeration; the only steps that lower it are
\* those to parsing_chrom made when the header completes or when
\* clear_line, or the feed that resumes it, returns ok.
C40_StateMonotone ==
    [][sc'.state < sc.state => NextLineStep]_vars

\* C40 with the case of C37 set apart: a step that lowers the state
\* either moves to parsing_chrom as the claim says, or is the feed that
\* resumes a clear_line called on an operation that was skipping fields,
\* finds the end of the line among the fields it still skips and reports
\* a missing field, setting end_of_data_line.
C40_StateMonotoneUnlessAbandoned ==
    [][sc'.state < sc.state =>
           \/ NextLineStep
           \/ /\ SkipAbandoned /\ sc.fields_to_skip > 0
              /\ sc'.state = end_of_data_line
              /\ ev' = error]_vars

\* In the second record, parse_alleles and then parse_genotype_format have
\* raised the state, and clear_line, resumed by a feed, has lowered it to
\* parsing_chrom.
C40_Witness ==
    /\ op = "clear_line" /\ ev = ok
    /\ sc.state = parsing_chrom
    /\ before.op = "parse_genotype_format" /\ before.ev = ok
    /\ before.sc.state = parsing_genotypes
    /\ before.sc.ref = <<"C">>
    /\ fed > before.fed
    /\ get_line_number(sc) = 5

=============================================================================
